---- MODULE Spec2Model ----
(***************************************************************************)
(* Control plane of the opportunity-ingestion pipeline                     *)
(* (api/app/services/repository.py and its HTTP routes): the relational    *)
(* store, and the request handlers as transactions over it.                *)
(*                                                                         *)
(* The committed database is the state.  A handler runs as a transaction   *)
(* of a process p: its statements that take row locks or read a snapshot   *)
(* are steps, its writes become visible in its commit step (READ COMMITTED *)
(* with row locks held to the end of the transaction).                     *)
(***************************************************************************)
EXTENDS Integers, Sequences, FiniteSets, TLC

VARIABLES
    now,          \* the database clock, in seconds
    discoveries,  \* table discoveries: row id = index
    jobs,         \* table jobs: row id = index
    candidates,   \* table posting_candidates: row id = index
    postings,     \* table postings: row id = index
    links,        \* table candidate_discoveries: set of <<candidate, discovery>>
    decisions,    \* table candidate_merge_decisions: set of rows
    events,       \* table provenance_events, in insertion order
    tx,           \* the open transaction of each process
    resp          \* the last response returned, and the process it went to

vars == <<now, discoveries, jobs, candidates, postings, links, decisions, events, tx, resp>>

db == <<discoveries, jobs, candidates, postings, links, decisions, events>>

----------------------------------------------------------------------------
(* Bounds of the model *)

MaxTime == 3
MaxLease == 2
MaxEvents == 9
MaxEventsConc == 6
MaxEventsLive == 8
MaxEventsIngest == 3
MaxEventsProj == 14
MaxEventsMod == 10
MaxEventsDup == 15
MaxEventsTrust == 16
MaxEventsMerge == 18
MaxEventsLock == 18
MaxEventsEnqueue == 10
MaxEventsFresh == 20
MaxAttempt == 6
MaxEventsRedirect == 8
MaxNormalizations == 2
MaxEventsLease == 10
MaxEventsModLock == 10
MaxEventsOwn == 23

(* Settings: api/app/core/config.py *)
JobMaxAttemptsSetting == 3
JobRetryBaseSetting == 1
JobRetryMaxSetting == 2

----------------------------------------------------------------------------
(* Values *)

NoTime == -1000
NoId == 0
NoModule == "NULL"
NoText == "NULL"

Modules == {"m1", "m2"}
ExternalIds == {NoText, "e1"}
LeaseChoices == {0, MaxLease}

Max(a, b) == IF a >= b THEN a ELSE b
Min(a, b) == IF a <= b THEN a ELSE b

RECURSIVE Pow2(_)
Pow2(n) == IF n <= 0 THEN 1 ELSE 2 * Pow2(n - 1)

(* PostgresRepository.__init__ clamps the settings. *)
job_max_attempts == Max(1, JobMaxAttemptsSetting)
job_retry_base_seconds == Max(0, JobRetryBaseSetting)
job_retry_max_seconds == Max(0, JobRetryMaxSetting)

(* Raw URLs a connector may report: a page, with or without a trailing     *)
(* slash and a utm_ tracking parameter.                                    *)
RawUrls == { [page |-> "a", slash |-> FALSE, utm |-> FALSE],
             [page |-> "a", slash |-> TRUE,  utm |-> TRUE],
             [page |-> "b", slash |-> FALSE, utm |-> FALSE] }

(* normalize_url: strips one trailing slash and the tracking parameters.   *)
normalize_url(u) == [page |-> u.page, slash |-> FALSE, utm |-> FALSE]

(* canonical_hash: SHA-256 of the normalized URL (injective here).         *)
canonical_hash(n) == <<"sha256", n.page, n.slash, n.utm>>

(* A url, and a hash, that is None. *)
NoUrl == [page |-> "NULL", slash |-> FALSE, utm |-> FALSE]
NoHash == <<>>

----------------------------------------------------------------------------
(* URL normalization by its parts (workers/app/core/urls.py; the API's     *)
(* normalize_url is the same with no override table).  A URL is its        *)
(* lower-case scheme, the labels of its host, its port ("" when absent),   *)
(* the characters of its path and the keys of its query, in order.         *)

Url(scheme, host, port, path, query) ==
    [scheme |-> scheme, host |-> host, port |-> port, path |-> path, query |-> query]

(* A query key: the prefix it starts with, and the rest. *)
QueryKey(prefix, rest) == [prefix |-> prefix, rest |-> rest]

(* The keys in the order Python sorts their strings. *)
SortedKeys ==
    <<QueryKey("", "a"), QueryKey("", "b"), QueryKey("", "ref"), QueryKey("", "sid"),
      QueryKey("utm_", "source")>>

KeyRank(k) == CHOOSE i \in 1 .. Len(SortedKeys) : SortedKeys[i] = k

TRACKING_KEYS == {QueryKey("", "ref"), QueryKey("", "fbclid"), QueryKey("", "gclid")}

_is_tracking_param(key) == key.prefix = "utm_" \/ key \in TRACKING_KEYS

(* A row of the override table. *)
Override(domain, strip_www, force_https, strip_query_params, strip_query_prefixes) ==
    [domain |-> domain, strip_www |-> strip_www, force_https |-> force_https,
     strip_query_params |-> strip_query_params,
     strip_query_prefixes |-> strip_query_prefixes]

NoOverride == Override(<<>>, FALSE, FALSE, {}, {})

(* _match_override: the row of the longest suffix of the host's labels. *)
RECURSIVE _match_override(_, _)
_match_override(host, overrides) ==
    IF host = <<>> \/ overrides = {} THEN NoOverride
    ELSE IF \E o \in overrides : o.domain = host
    THEN CHOOSE o \in overrides : o.domain = host
    ELSE _match_override(Tail(host), overrides)

_should_strip_query_param(key, override) ==
    \/ _is_tracking_param(key)
    \/ /\ override # NoOverride
       /\ \/ key \in override.strip_query_params
          \/ key.prefix # "" /\ key.prefix \in override.strip_query_prefixes

(* list.sort(key=pair[0]): a stable insertion of each key after its equals. *)
RECURSIVE SortQuery(_)
SortQuery(q) ==
    IF q = <<>> THEN <<>>
    ELSE LET rest == SortQuery(Tail(q))
             before == SelectSeq(rest, LAMBDA k : KeyRank(k) < KeyRank(Head(q)))
             after == SelectSeq(rest, LAMBDA k : KeyRank(k) >= KeyRank(Head(q)))
         IN  before \o <<Head(q)>> \o after

worker_normalize_url(raw_url, overrides) ==
    LET scheme == raw_url.scheme
        host == raw_url.host
        default_port == \/ scheme = "http" /\ raw_url.port = "80"
                        \/ scheme = "https" /\ raw_url.port = "443"
        port == IF default_port THEN "" ELSE raw_url.port
        override == _match_override(host, overrides)
        strip_www == /\ override # NoOverride
                     /\ override.strip_www
                     /\ Len(host) >= 2
                     /\ host[1] = "www"
        force_https == override # NoOverride /\ override.force_https /\ scheme = "http"
        path == IF raw_url.path = <<>> THEN <<"/">> ELSE raw_url.path
    IN  Url(IF force_https THEN "https" ELSE scheme,
            IF strip_www THEN Tail(host) ELSE host,
            port,
            IF path # <<"/">> /\ path[Len(path)] = "/"
            THEN SubSeq(path, 1, Len(path) - 1) ELSE path,
            SortQuery(SelectSeq(raw_url.query,
                                LAMBDA k : ~_should_strip_query_param(k, override))))

----------------------------------------------------------------------------
(* Human principals (api/app/core/security.py) *)

ROLE_SCOPES(role) ==
    LET user == {"catalog:read", "submission:write"}
        moderator == user \cup {"moderation:read", "moderation:write"}
    IN  IF role = "moderator" THEN moderator
        ELSE IF role = "admin" THEN moderator \cup {"admin:write"}
        ELSE user

(* A metadata value of the identity provider's user record: a dict or not, *)
(* and the role it carries (NoText: no 'role' key or not a string).        *)
Metadata(is_dict, role) == [is_dict |-> is_dict, role |-> role]

HasRole(metadata) == metadata.is_dict /\ metadata.role # NoText /\ metadata.role # ""

_resolve_human_role(user) ==
    IF HasRole(user.app_metadata) THEN user.app_metadata.role
    ELSE IF HasRole(user.user_metadata) THEN user.user_metadata.role
    ELSE "user"

----------------------------------------------------------------------------
(* Provenance log *)

(* A row of provenance_events.  The actor's id and the payload keys that no   *)
(* handler reads back are left out.                                          *)
Event(etype, eid, ev, atype, payload) ==
    [entity_type |-> etype, entity_id |-> eid, event_type |-> ev,
     actor_type |-> atype, payload |-> payload]

NoPayload == <<>>

EventsIn(log, etype, eid, ev) ==
    { i \in 1 .. Len(log) :
        /\ log[i].entity_type = etype
        /\ log[i].entity_id = eid
        /\ log[i].event_type = ev }

EventsOf(etype, eid, ev) == EventsIn(events, etype, eid, ev)

JobEvents(j, ev) == Cardinality(EventsOf("job", j, ev))

JobEventsIn(log, j, ev) == Cardinality(EventsIn(log, "job", j, ev))

RECURSIVE SeqOfSet(_)
SeqOfSet(S) ==
    IF S = {} THEN <<>>
    ELSE LET x == CHOOSE y \in S : \A z \in S : y <= z
         IN  <<x>> \o SeqOfSet(S \ {x})

----------------------------------------------------------------------------
(* Transactions and row locks *)

Idle == [op |-> "idle"]

IsIdle(p) == tx[p].op = "idle"

(* The job rows a transaction holds locked (UPDATE, SELECT ... FOR UPDATE). *)
JobLocks(p) ==
    CASE tx[p].op = "claim"  -> {tx[p].job}
      [] tx[p].op = "submit" -> {tx[p].job}
      [] tx[p].op = "reap"   -> tx[p].rows
      [] OTHER               -> {}

JobLockedByOther_Never(j, p) == FALSE

JobLockedByOther(j, p) == \E q \in DOMAIN tx : q # p /\ j \in JobLocks(q)

(* The unique-index entries of discoveries an open transaction has inserted. *)
DiscoveryKey(m, ext, norm) ==
    IF ext # NoText THEN <<"external_id", m, ext>> ELSE <<"normalized_url", m, norm>>

KeyHeldByOther_Never(k, p) == FALSE

KeyHeldByOther(k, p) == \E q \in DOMAIN tx : q # p /\ tx[q].op = "ingest" /\ tx[q].key = k

JobExists(j) == j \in 1 .. Len(jobs)

(* insert into jobs (kind, target_type, target_id, next_run_at). *)
NewJob(kind, ttype, tid, at) ==
    [kind |-> kind, target_type |-> ttype, target_id |-> tid, status |-> "queued",
     attempt |-> 0, locked_by_module_id |-> NoModule, locked_at |-> NoTime,
     lease_expires_at |-> NoTime, next_run_at |-> at]

----------------------------------------------------------------------------
(* Responses *)

Resp(op, id, result, status, count) ==
    [op |-> op, id |-> id, result |-> result, status |-> status, count |-> count]

Answer(p, r) ==
    [proc |-> p, op |-> r.op, id |-> r.id, result |-> r.result, status |-> r.status,
     count |-> r.count]

NoResp == Answer(0, Resp("none", NoId, "none", NoText, 0))

Reply(p, r) == resp' = Answer(p, r)

Begin(p, t) == tx' = [tx EXCEPT ![p] = t]

End(p) == tx' = [tx EXCEPT ![p] = Idle]

----------------------------------------------------------------------------
(* Job queue: claim_job *)

Claimable_AnyStatus(j) == jobs[j].status # "claimed" /\ jobs[j].next_run_at <= now

Claimable(j) == jobs[j].status = "queued" /\ jobs[j].next_run_at <= now

(* list_queued_jobs: the rows with status = 'queued' and next_run_at <= now(). *)
list_queued_jobs == { j \in 1 .. Len(jobs) : jobs[j].status = "queued" /\ jobs[j].next_run_at <= now }

ClaimedRow(row, m, lease, at) ==
    [row EXCEPT !.status = "claimed",
                !.locked_by_module_id = m,
                !.locked_at = at,
                !.lease_expires_at = at + lease,
                !.attempt = row.attempt + 1]

ClaimTx(j, m, lease) == [op |-> "claim", job |-> j, module |-> m, lease |-> lease, at |-> now]

(* No row updated: NotFound or Conflict. *)
ClaimError(j) == IF JobExists(j) THEN "Conflict" ELSE "NotFound"

(* The row update, the 'claimed' event and the response of a claim. *)
ClaimWrite(p, t, cap) ==
    /\ Len(events) < cap
    /\ jobs' = [jobs EXCEPT ![t.job] = ClaimedRow(jobs[t.job], t.module, t.lease, t.at)]
    /\ events' = Append(events, Event("job", t.job, "claimed", "machine", NoPayload))
    /\ Reply(p, Resp("claim", t.job, "ok", "claimed", 0))
    /\ UNCHANGED <<now, discoveries, candidates, postings, links, decisions>>

(* claim_job as one transaction. *)
ClaimJob(p, j, m, lease, cap) ==
    /\ IsIdle(p)
    /\ JobExists(j) => ~JobLockedByOther(j, p)
    /\ IF JobExists(j) /\ Claimable(j)
       THEN ClaimWrite(p, ClaimTx(j, m, lease), cap)
       ELSE Reply(p, Resp("claim", j, ClaimError(j), NoText, 0)) /\ UNCHANGED <<now, db>>
    /\ UNCHANGED tx

(* claim_job by statement.  The UPDATE waits for a row that another open      *)
(* transaction has updated, and then sees that transaction's committed row.   *)
ClaimUpdate(p, j, m, lease) ==
    /\ IsIdle(p)
    /\ IF JobExists(j) /\ Claimable(j)
       THEN /\ ~JobLockedByOther(j, p)
            /\ Begin(p, ClaimTx(j, m, lease))
            /\ UNCHANGED resp
       ELSE /\ Reply(p, Resp("claim", j, ClaimError(j), NoText, 0))
            /\ UNCHANGED tx
    /\ UNCHANGED <<now, db>>

ClaimCommit(p, cap) ==
    /\ tx[p].op = "claim"
    /\ ClaimWrite(p, tx[p], cap)
    /\ End(p)

----------------------------------------------------------------------------
(* Job queue: _requeue_expired_claimed_jobs *)

Expired_Strict(j) ==
    /\ jobs[j].status = "claimed"
    /\ jobs[j].lease_expires_at # NoTime
    /\ jobs[j].lease_expires_at < now

Expired(j) ==
    /\ jobs[j].status = "claimed"
    /\ jobs[j].lease_expires_at # NoTime
    /\ jobs[j].lease_expires_at <= now

(* The rows the CTE returns: the unlocked expired rows, earliest lease first, *)
(* at most `limit` of them (FOR UPDATE SKIP LOCKED).                          *)
ReapCandidates_NoSkip(p) == { j \in 1 .. Len(jobs) : Expired(j) }

ReapCandidates(p) == { j \in 1 .. Len(jobs) : Expired(j) /\ ~JobLockedByOther(j, p) }

ReapChoices(p, limit) ==
    LET avail == ReapCandidates(p)
        n == Min(Max(1, Min(limit, 1000)), Cardinality(avail))
    IN  { S \in SUBSET avail :
            /\ Cardinality(S) = n
            /\ \A a \in S, b \in avail \ S :
                   jobs[a].lease_expires_at <= jobs[b].lease_expires_at }

RequeuedRow(row, at) ==
    [row EXCEPT !.status = "queued",
                !.locked_by_module_id = NoModule,
                !.locked_at = NoTime,
                !.lease_expires_at = NoTime,
                !.next_run_at = at]

ReapTx(S, atype) == [op |-> "reap", rows |-> S, actor_type |-> atype, at |-> now]

(* The row updates, one 'lease_requeued' event per row, and the count returned. *)
ReapWrite(p, t, cap) ==
    LET order == SeqOfSet(t.rows)
    IN  /\ Len(events) + Len(order) <= cap
        /\ jobs' = [j \in 1 .. Len(jobs) |->
                       IF j \in t.rows THEN RequeuedRow(jobs[j], t.at) ELSE jobs[j]]
        /\ events' = events \o
               [i \in 1 .. Len(order) |->
                   Event("job", order[i], "lease_requeued", t.actor_type, NoPayload)]
        /\ Reply(p, Resp("reap", NoId, "ok", NoText, Len(order)))
        /\ UNCHANGED <<now, discoveries, candidates, postings, links, decisions>>

(* _requeue_expired_claimed_jobs as one transaction. *)
ReapExpired(p, atype, limit, cap) ==
    /\ IsIdle(p)
    /\ \E S \in ReapChoices(p, limit) : ReapWrite(p, ReapTx(S, atype), cap)
    /\ UNCHANGED tx

(* _requeue_expired_claimed_jobs by statement: the UPDATE, then the events.  *)
ReapSelect(p, atype, limit) ==
    /\ IsIdle(p)
    /\ \E S \in ReapChoices(p, limit) : Begin(p, ReapTx(S, atype))
    /\ UNCHANGED <<now, db, resp>>

ReapCommit(p, cap) ==
    /\ tx[p].op = "reap"
    /\ ReapWrite(p, tx[p], cap)
    /\ End(p)

----------------------------------------------------------------------------
(* Extraction results and the dedupe scorer (api/app/services/dedupe.py).   *)
(* Scores are in ten-thousandths.                                           *)

NoConfidence == -1

(* The key of a row of source_trust_policy: <<"source", name>>,              *)
(* <<"module", module_id>> or <<"default", trust_level>>.                    *)
NoKey == <<>>

(* result_json of a job: no payload, or a posting payload whose title is    *)
(* given by its tokens, with the keys of the extraction that the projection *)
(* reads (NoText, NoKey: the key is absent), or the recommended_status of a *)
(* freshness check.                                                         *)
NoResult ==
    [posting |-> FALSE, title |-> {}, organization_name |-> NoText,
     dedupe_confidence |-> NoConfidence, candidate_state |-> NoText, status |-> NoText,
     source_key |-> NoKey, risk_flags |-> {}, recommended_status |-> NoText,
     resolved_url |-> NoUrl, resolved_normalized_url |-> NoUrl,
     resolved_canonical_hash |-> NoHash]

ExtractionResult(title, conf, cstate, pstatus, key, flags) ==
    [posting |-> TRUE, title |-> title, organization_name |-> "org",
     dedupe_confidence |-> conf, candidate_state |-> cstate, status |-> pstatus,
     source_key |-> key, risk_flags |-> flags, recommended_status |-> NoText,
     resolved_url |-> NoUrl, resolved_normalized_url |-> NoUrl,
     resolved_canonical_hash |-> NoHash]

PostingPayload(title, conf) == ExtractionResult(title, conf, NoText, NoText, NoKey, {})

FreshnessResult(recommended) == [NoResult EXCEPT !.recommended_status = recommended]

(* execute_check_freshness (workers/app/jobs/freshness.py): the status the  *)
(* worker recommends from the posting status in the job's inputs and from   *)
(* whether the posting's age has passed the stale and the archive threshold. *)
execute_check_freshness(posting_status, stale_due, archive_due) ==
    IF posting_status = "active" /\ stale_due THEN "stale"
    ELSE IF posting_status = "stale" /\ archive_due THEN "archived"
    ELSE NoText

(* result_json of a resolve_url_redirects job. *)
RedirectResult(url, norm, hash) ==
    [NoResult EXCEPT !.resolved_url = url, !.resolved_normalized_url = norm,
                     !.resolved_canonical_hash = hash]

(* modules.trust_level of the registered modules. *)
ModuleTrust(m) == IF m = "m1" THEN "trusted" ELSE "untrusted"

_jaccard(left, right) ==
    IF left = {} \/ right = {} THEN 0
    ELSE (Cardinality(left \cap right) * 10000) \div Cardinality(left \cup right)

_organization_similarity(left, right) ==
    IF left = NoText \/ right = NoText THEN 0
    ELSE IF left = right THEN 10000
    ELSE _jaccard({left}, {right})

(* Every URL of the model is on one host. *)
_domain_set(snapshot) == {"host"}

ConflictFlags ==
    {"conflict_hash_mismatch", "conflict_organization_mismatch", "conflict_title_mismatch",
     "conflict_multiple_close_matches", "conflict_auto_merge_blocked"}

_score_risk_flags(incoming, existing, confidence, strong, title_similarity, organization_similarity) ==
    (IF ~strong /\ confidence >= 7200 THEN {"manual_review_low_signal"} ELSE {})
    \cup
    (IF /\ incoming.canonical_hash # existing.canonical_hash
        /\ \/ incoming.normalized_url = existing.normalized_url
           \/ incoming.canonical_url = existing.canonical_url
     THEN {"conflict_hash_mismatch"} ELSE {})
    \cup (IF /\ strong
             /\ incoming.organization_name # NoText
             /\ existing.organization_name # NoText
             /\ organization_similarity < 2500
          THEN {"conflict_organization_mismatch"} ELSE {})
    \cup (IF strong /\ incoming.title # {} /\ existing.title # {} /\ title_similarity < 2500
          THEN {"conflict_title_mismatch"} ELSE {})

score_candidate_pair(incoming, existing) ==
    LET same_hash == incoming.canonical_hash = existing.canonical_hash
        same_norm == incoming.normalized_url = existing.normalized_url
        same_url == incoming.canonical_url = existing.canonical_url
        strong == same_hash \/ same_norm \/ same_url
        title_similarity == _jaccard(incoming.title, existing.title)
        organization_similarity ==
            _organization_similarity(incoming.organization_name, existing.organization_name)
        phrase_similarity == _jaccard(incoming.phrase, existing.phrase)
        medium_score == (45 * title_similarity + 25 * organization_similarity
                         + 10 * phrase_similarity) \div 100
        org_ner_overlap == _jaccard(incoming.organizations, existing.organizations)
        tie_break_score == (10 * org_ner_overlap
                            + 5 * _jaccard(_domain_set(incoming), _domain_set(existing))) \div 100
        score == (IF same_hash THEN 6500 ELSE 0) + (IF same_norm THEN 2000 ELSE 0)
                 + (IF same_url THEN 1500 ELSE 0) + medium_score + tie_break_score
        confidence == Min(IF strong THEN score ELSE Min(score, 8900), 9999)
    IN  [candidate_id |-> existing.candidate_id,
         confidence |-> confidence,
         strong |-> strong,
         risk_flags |-> _score_risk_flags(incoming, existing, confidence, strong,
                                          title_similarity, organization_similarity),
         has_posting |-> existing.has_posting]

NoDecision ==
    [decision |-> "none", primary_candidate_id |-> NoId, confidence |-> NoConfidence,
     risk_flags |-> {}]

BestScore_Last(scores) ==
    CHOOSE b \in scores : \A o \in scores :
        \/ b.confidence > o.confidence
        \/ b.confidence = o.confidence /\ b.candidate_id >= o.candidate_id

(* The head of the ranking by (-confidence, candidate_id). *)
BestScore(scores) ==
    CHOOSE b \in scores : \A o \in scores :
        \/ b.confidence > o.confidence
        \/ b.confidence = o.confidence /\ b.candidate_id <= o.candidate_id

evaluate_merge_policy(incoming, existing) ==
    LET scores == { score_candidate_pair(incoming, row) : row \in existing }
        best == BestScore(scores)
        rest == scores \ {best}
        close == rest # {} /\ LET second == BestScore(rest)
                              IN  /\ second.confidence >= 7200
                                  /\ best.confidence - second.confidence <= 300
        merged_flags == best.risk_flags
                        \cup (IF close THEN {"conflict_multiple_close_matches"} ELSE {})
        has_conflict_flag == merged_flags \cap ConflictFlags # {}
        decision == IF /\ best.confidence >= 9300
                       /\ best.strong
                       /\ best.has_posting
                       /\ ~has_conflict_flag
                    THEN "auto_merged"
                    ELSE IF best.confidence >= 7200 \/ has_conflict_flag THEN "needs_review"
                    ELSE IF best.strong THEN "rejected"
                    ELSE "none"
    IN  IF scores = {} THEN NoDecision
        ELSE [decision |-> decision,
              primary_candidate_id |-> IF decision # "none" THEN best.candidate_id ELSE NoId,
              confidence |-> best.confidence,
              risk_flags |-> merged_flags]

----------------------------------------------------------------------------
(* Extract projection: _materialize_extract_projection *)

(* The rows of posting_candidates joined with postings that the dedupe      *)
(* query returns for the incoming hash and URLs.                            *)
DedupeRows(incoming) ==
    { [candidate_id |-> postings[i].candidate_id,
       canonical_hash |-> postings[i].canonical_hash,
       normalized_url |-> postings[i].normalized_url,
       canonical_url |-> postings[i].canonical_url,
       title |-> postings[i].title,
       organization_name |-> postings[i].organization_name,
       phrase |-> {},
       organizations |-> {},
       has_posting |-> TRUE] :
      i \in { k \in 1 .. Len(postings) :
                /\ postings[k].candidate_id \in 1 .. Len(candidates)
                /\ candidates[postings[k].candidate_id].state # "archived"
                /\ \/ postings[k].canonical_hash = incoming.canonical_hash
                   \/ postings[k].normalized_url = incoming.normalized_url
                   \/ postings[k].canonical_url = incoming.canonical_url } }

_evaluate_dedupe_merge_policy(incoming, can_project_posting) ==
    IF ~can_project_posting THEN NoDecision
    ELSE IF DedupeRows(incoming) = {} THEN NoDecision
    ELSE evaluate_merge_policy(incoming, DedupeRows(incoming))

(* The enabled rows of source_trust_policy (written by the admin API, read   *)
(* here): rules_json is given by its min_confidence, NoConfidence if absent. *)
PolicyRow(name, level, auto, moderated, min_confidence) ==
    [source_key |-> <<"source", name>>, trust_level |-> level, auto_publish |-> auto,
     requires_moderation |-> moderated, min_confidence |-> min_confidence]

source_trust_policy ==
    { PolicyRow("lenient", "trusted", TRUE, FALSE, 5000),
      PolicyRow("strict", "trusted", TRUE, FALSE, 9500),
      PolicyRow("manual", "trusted", FALSE, FALSE, NoConfidence),
      PolicyRow("moderated", "trusted", TRUE, TRUE, NoConfidence),
      PolicyRow("semi", "semi_trusted", TRUE, FALSE, NoConfidence),
      PolicyRow("semi_manual", "semi_trusted", FALSE, FALSE, NoConfidence),
      PolicyRow("semi_moderated", "semi_trusted", TRUE, TRUE, NoConfidence),
      PolicyRow("blocked", "untrusted", TRUE, FALSE, NoConfidence) }

(* The first enabled row in the lookup order hint, module:<id>,             *)
(* default:<level>; without one, the fallback by the module's trust level.  *)
_resolve_source_trust_policy(source_key_hint, module_id, module_trust_level) ==
    LET policy_lookup_order ==
            (IF source_key_hint # NoKey THEN <<source_key_hint>> ELSE <<>>)
            \o <<<<"module", module_id>>, <<"default", module_trust_level>>>>
        hits == { i \in 1 .. Len(policy_lookup_order) :
                    \E row \in source_trust_policy : row.source_key = policy_lookup_order[i] }
    IN  IF hits # {}
        THEN LET first == CHOOSE i \in hits : \A k \in hits : i <= k
                 row == CHOOSE r \in source_trust_policy : r.source_key = policy_lookup_order[first]
             IN  [source_key |-> row.source_key, trust_level |-> row.trust_level,
                  auto_publish |-> row.auto_publish,
                  requires_moderation |-> row.requires_moderation,
                  min_confidence |-> row.min_confidence, matched_fallback |-> FALSE]
        ELSE [source_key |-> <<"default", module_trust_level>>,
              trust_level |-> module_trust_level,
              auto_publish |-> module_trust_level \in {"trusted", "semi_trusted"},
              requires_moderation |-> module_trust_level = "untrusted",
              min_confidence |-> NoConfidence, matched_fallback |-> TRUE]

(* A flag that contains "conflict": the scorer's conflict_ flags, and a     *)
(* flag of the worker's own.                                                *)
ContainsConflict(flag) == flag \in ConflictFlags \cup {"source_conflict"}

PublishReason(trust_policy, meets_confidence, has_conflict_flag, should_auto_publish) ==
    CASE trust_policy.trust_level = "trusted" ->
            (IF should_auto_publish THEN "trusted_auto_publish"
             ELSE IF ~trust_policy.auto_publish THEN "policy_auto_publish_disabled"
             ELSE IF trust_policy.requires_moderation THEN "policy_requires_moderation"
             ELSE IF ~meets_confidence THEN "below_min_confidence"
             ELSE "insufficient_projection_data")
      [] trust_policy.trust_level = "semi_trusted" ->
            (IF should_auto_publish THEN "semi_trusted_auto_publish"
             ELSE IF has_conflict_flag THEN "semi_trusted_conflict_flag"
             ELSE IF trust_policy.requires_moderation THEN "policy_requires_moderation"
             ELSE IF ~meets_confidence THEN "below_min_confidence"
             ELSE IF ~trust_policy.auto_publish THEN "policy_auto_publish_disabled"
             ELSE "insufficient_projection_data")
      [] OTHER -> "untrusted_requires_moderation"

(* min_confidence of the publish decision: the rules_json of the policy is  *)
(* not read.                                                                *)
MinConfidence(trust_policy) ==
    IF trust_policy.trust_level \in {"trusted", "semi_trusted"} THEN 7200 ELSE NoConfidence

ShouldAutoPublish_Confident(can_project_posting, trust_policy, meets_confidence, has_conflict_flag) ==
    can_project_posting /\ meets_confidence

(* should_auto_publish of the publish decision. *)
ShouldAutoPublish(can_project_posting, trust_policy, meets_confidence, has_conflict_flag) ==
    /\ can_project_posting
    /\ CASE trust_policy.trust_level = "trusted" ->
                /\ trust_policy.auto_publish
                /\ ~trust_policy.requires_moderation
                /\ meets_confidence
         [] trust_policy.trust_level = "semi_trusted" ->
                /\ trust_policy.auto_publish
                /\ meets_confidence
                /\ ~has_conflict_flag
                /\ ~trust_policy.requires_moderation
         [] OTHER -> FALSE

_resolve_publish_decision(can_project_posting, trust_policy, dedupe_confidence, risk_flags) ==
    LET min_confidence == MinConfidence(trust_policy)
        meets_confidence ==
            \/ min_confidence = NoConfidence
            \/ dedupe_confidence # NoConfidence /\ dedupe_confidence >= min_confidence
        has_conflict_flag == \E flag \in risk_flags : ContainsConflict(flag)
        should_auto_publish ==
            ShouldAutoPublish(can_project_posting, trust_policy, meets_confidence,
                              has_conflict_flag)
    IN  [candidate_state |-> IF ~can_project_posting THEN "processed"
                             ELSE IF should_auto_publish THEN "published"
                             ELSE "needs_review",
         posting_status |-> IF should_auto_publish THEN "active" ELSE "archived",
         trust_level |-> trust_policy.trust_level,
         auto_publish |-> trust_policy.auto_publish,
         requires_moderation |-> trust_policy.requires_moderation,
         dedupe_confidence |-> dedupe_confidence,
         min_confidence |-> min_confidence,
         meets_confidence |-> meets_confidence,
         has_conflict_flag |-> has_conflict_flag,
         reason |-> IF can_project_posting
                    THEN PublishReason(trust_policy, meets_confidence, has_conflict_flag,
                                       should_auto_publish)
                    ELSE "insufficient_projection_data"]

_resolve_merge_decision_routing(merge_decision, candidate_state, posting_status) ==
    CASE merge_decision = "needs_review" ->
            [candidate_state |-> "needs_review", posting_status |-> "archived",
             reason |-> "dedupe_review_required"]
      [] merge_decision = "rejected" ->
            [candidate_state |-> "rejected", posting_status |-> "archived",
             reason |-> "dedupe_rejected"]
      [] merge_decision = "auto_merged" ->
            [candidate_state |-> "archived", posting_status |-> "archived",
             reason |-> "dedupe_auto_merged"]
      [] OTHER ->
            [candidate_state |-> candidate_state, posting_status |-> posting_status,
             reason |-> NoText]

CandidateStates ==
    {"discovered", "processed", "publishable", "published", "rejected", "closed",
     "archived", "needs_review"}

PostingStatuses == {"active", "stale", "archived", "closed"}

_coerce_candidate_state(value, default) == IF value \in CandidateStates THEN value ELSE default

_coerce_posting_status(value, default) == IF value \in PostingStatuses THEN value ELSE default

(* What the projection reads and decides before its first insert. *)
ProjectionPlan(j, d, result) ==
    LET discovery == discoveries[d]
        can_project_posting ==
            result.posting /\ result.title # {} /\ result.organization_name # NoText
        incoming == [canonical_hash |-> discovery.canonical_hash,
                     normalized_url |-> discovery.normalized_url,
                     canonical_url |-> discovery.url,
                     title |-> result.title,
                     organization_name |-> result.organization_name,
                     phrase |-> {},
                     organizations |-> {}]
        merge_policy == _evaluate_dedupe_merge_policy(incoming, can_project_posting)
        publish == _resolve_publish_decision(
                       can_project_posting,
                       _resolve_source_trust_policy(result.source_key,
                                                    discovery.origin_module_id,
                                                    ModuleTrust(discovery.origin_module_id)),
                       result.dedupe_confidence,
                       result.risk_flags \cup merge_policy.risk_flags)
        coerced == _coerce_candidate_state(result.candidate_state, publish.candidate_state)
        candidate_state ==
            IF ~can_project_posting /\ coerced = "published" THEN "processed"
            ELSE IF /\ can_project_posting
                    /\ coerced = "published"
                    /\ publish.candidate_state # "published"
            THEN "needs_review"
            ELSE coerced
    IN  [job_id |-> j,
         discovery_id |-> d,
         incoming |-> incoming,
         can_project_posting |-> can_project_posting,
         merge_policy |-> merge_policy,
         publish |-> publish,
         candidate_state |-> candidate_state,
         posting_status |-> IF candidate_state = "published"
                            THEN _coerce_posting_status(result.status, publish.posting_status)
                            ELSE "archived"]

NoPlan == [job_id |-> NoId, discovery_id |-> NoId]

PostingOf_None(posts, c) == NoId

(* The posting that links back to a candidate (fetchval: its first row). *)
PostingOf(posts, c) ==
    LET own == { i \in 1 .. Len(posts) : posts[i].candidate_id = c }
    IN  IF own = {} THEN NoId ELSE CHOOSE i \in own : \A k \in own : i <= k

MergeError_Blocked(cands, posts, primary, secondary) == "Conflict"

MergeError_AnyPostings(cands, posts, primary, secondary) ==
    IF primary = secondary THEN "Conflict"
    ELSE IF ~({primary, secondary} \subseteq 1 .. Len(cands)) THEN "NotFound"
    ELSE "ok"

(* The checks of _apply_candidate_merge once both rows are locked. *)
MergeError(cands, posts, primary, secondary) ==
    IF primary = secondary THEN "Conflict"
    ELSE IF ~({primary, secondary} \subseteq 1 .. Len(cands)) THEN "NotFound"
    ELSE IF /\ PostingOf(posts, primary) # NoId
            /\ PostingOf(posts, secondary) # NoId
            /\ PostingOf(posts, primary) # PostingOf(posts, secondary)
    THEN "Conflict"
    ELSE "ok"

MergeDecisionRow(primary, secondary, decision, decided_by, confidence) ==
    [primary_candidate_id |-> primary, secondary_candidate_id |-> secondary,
     decision |-> decision, decided_by |-> decided_by, confidence |-> confidence]

(* _record_candidate_merge_decision: upsert on (primary, secondary), and its event. *)
RecordedDecisions(decs, row) ==
    { r \in decs : ~(/\ r.primary_candidate_id = row.primary_candidate_id
                     /\ r.secondary_candidate_id = row.secondary_candidate_id) }
    \cup {row}

DecisionEvent(row, atype) ==
    Event("posting_candidate", row.secondary_candidate_id, "merge_decision_recorded", atype,
          [primary_candidate_id |-> row.primary_candidate_id, decision |-> row.decision])

(* The writes of _apply_candidate_merge after its checks. *)
_apply_candidate_merge(cands, posts, lnks, decs, primary, secondary, atype, decision, decided_by, confidence) ==
    LET moved == IF PostingOf(posts, primary) = NoId THEN PostingOf(posts, secondary) ELSE NoId
        row == MergeDecisionRow(primary, secondary, decision, decided_by, confidence)
    IN  [candidates |-> [cands EXCEPT ![secondary].state = "archived"],
         postings |-> [i \in 1 .. Len(posts) |->
                          IF i = moved THEN [posts[i] EXCEPT !.candidate_id = primary]
                          ELSE posts[i]],
         links |-> lnks \cup { <<primary, l[2]>> : l \in { x \in lnks : x[1] = secondary } },
         decisions |-> RecordedDecisions(decs, row),
         events |-> <<DecisionEvent(row, atype),
                      Event("posting_candidate", primary, "merge_applied", atype,
                            [secondary_candidate_id |-> secondary, decision |-> decision]),
                      Event("posting_candidate", secondary, "merged_away", atype,
                            [primary_candidate_id |-> primary, decision |-> decision])>>
                    \o (IF moved # NoId
                        THEN <<Event("posting", moved, "candidate_reassigned", atype,
                                     [from_candidate_id |-> secondary,
                                      to_candidate_id |-> primary])>>
                        ELSE <<>>)]

ConflictingPostings_None(posts, hash) == {}

(* The committed postings an INSERT ... ON CONFLICT (canonical_hash) collides with. *)
ConflictingPostings(posts, hash) == { i \in 1 .. Len(posts) : posts[i].canonical_hash = hash }

(* insert into postings ... on conflict (canonical_hash) do update. *)
UpsertPosting(posts, row) ==
    LET hit == ConflictingPostings(posts, row.canonical_hash)
    IN  IF hit = {}
        THEN Append(posts, row)
        ELSE [i \in 1 .. Len(posts) |->
                 IF i \in hit
                 THEN [row EXCEPT !.published_at = posts[i].published_at]
                 ELSE posts[i]]

UpsertedId(posts, row) ==
    LET hit == ConflictingPostings(posts, row.canonical_hash)
    IN  IF hit = {} THEN Len(posts) + 1 ELSE CHOOSE i \in hit : TRUE

NewCandidateId_First(cands) == 1

(* insert into posting_candidates ... returning id: the id of the new row. *)
NewCandidateId(cands) == Len(cands) + 1

(* The tables after the writes of the projection, and the events it appends. *)
ProjectionEffect(plan, at) ==
    LET c == NewCandidateId(candidates)
        d == plan.discovery_id
        mp == plan.merge_policy
        primary == mp.primary_candidate_id
        cands1 == Append(candidates,
                         [state |-> plan.candidate_state,
                          dedupe_bucket_key |-> plan.incoming.canonical_hash])
        links1 == links \cup {<<c, d>>}
        auto == primary # NoId /\ mp.decision = "auto_merged"
        merged == auto /\ MergeError(cands1, postings, primary, c) = "ok"
        blocked == auto /\ ~merged
        merge_decision == IF blocked THEN "needs_review" ELSE mp.decision
        m == IF merged
             THEN _apply_candidate_merge(cands1, postings, links1, decisions, primary, c,
                                         "machine", "auto_merged", "machine_dedupe_v1",
                                         mp.confidence)
             ELSE IF primary # NoId
             THEN LET row == MergeDecisionRow(primary, c, merge_decision, "machine_dedupe_v1",
                                              mp.confidence)
                  IN  [candidates |-> cands1, postings |-> postings, links |-> links1,
                       decisions |-> RecordedDecisions(decisions, row),
                       events |-> <<DecisionEvent(row, "machine")>>]
             ELSE [candidates |-> cands1, postings |-> postings, links |-> links1,
                   decisions |-> decisions, events |-> <<>>]
        routed == _resolve_merge_decision_routing(
                      merge_decision,
                      IF blocked THEN "needs_review" ELSE plan.candidate_state,
                      IF blocked THEN "archived" ELSE plan.posting_status)
        project == plan.can_project_posting /\ ~merged
        row == [candidate_id |-> c,
                canonical_hash |-> plan.incoming.canonical_hash,
                normalized_url |-> plan.incoming.normalized_url,
                canonical_url |-> plan.incoming.canonical_url,
                title |-> plan.incoming.title,
                organization_name |-> plan.incoming.organization_name,
                status |-> routed.posting_status,
                published_at |-> IF routed.posting_status = "active" THEN at ELSE NoTime]
    IN  [candidates |-> [m.candidates EXCEPT ![c].state = routed.candidate_state],
         postings |-> IF project THEN UpsertPosting(m.postings, row) ELSE m.postings,
         links |-> m.links,
         decisions |-> m.decisions,
         events |->
             <<Event("posting_candidate", c, "materialized", "machine",
                     [job_id |-> plan.job_id, state |-> plan.candidate_state])>>
             \o m.events
             \o <<Event("posting_candidate", c, "trust_policy_applied", "machine",
                        [job_id |-> plan.job_id,
                         candidate_state |-> routed.candidate_state,
                         posting_status |-> routed.posting_status,
                         trust_level |-> plan.publish.trust_level,
                         auto_publish |-> plan.publish.auto_publish,
                         requires_moderation |-> plan.publish.requires_moderation,
                         dedupe_confidence |-> plan.publish.dedupe_confidence,
                         min_confidence |-> plan.publish.min_confidence,
                         meets_confidence |-> plan.publish.meets_confidence,
                         has_conflict_flag |-> plan.publish.has_conflict_flag,
                         reason |-> IF routed.reason # NoText THEN routed.reason
                                    ELSE plan.publish.reason,
                         merge_decision |-> merge_decision])>>
             \o (IF project
                 THEN <<Event("posting", UpsertedId(m.postings, row), "projected", "machine",
                              [job_id |-> plan.job_id, candidate_id |-> c])>>
                 ELSE <<>>)]

----------------------------------------------------------------------------
(* Lifecycle tables of candidates and postings *)

CandidateTransitions(from_state) ==
    CASE from_state = "discovered"   -> {"processed", "needs_review", "rejected", "archived"}
      [] from_state = "processed"    -> {"publishable", "needs_review", "rejected", "archived"}
      [] from_state = "needs_review" -> {"publishable", "rejected", "archived", "processed"}
      [] from_state = "publishable"  -> {"published", "rejected", "needs_review", "archived"}
      [] from_state = "published"    -> {"archived", "closed"}
      [] from_state = "archived"     -> {"published", "closed"}
      [] from_state = "closed"       -> {"archived"}
      [] from_state = "rejected"     -> {"needs_review", "archived"}
      [] OTHER                       -> {}

PostingTransitions(from_status) ==
    CASE from_status = "active"   -> {"stale", "archived", "closed"}
      [] from_status = "stale"    -> {"active", "archived", "closed"}
      [] from_status = "archived" -> {"active", "stale", "closed"}
      [] from_status = "closed"   -> {"archived"}
      [] OTHER                    -> {}

_validate_candidate_transition_Any(from_state, to_state) == TRUE

_validate_candidate_transition(from_state, to_state) ==
    to_state = from_state \/ to_state \in CandidateTransitions(from_state)

_validate_posting_status_transition(from_status, to_status) ==
    to_status = from_status \/ to_status \in PostingTransitions(from_status)

_derive_candidate_state_for_posting_status(status) ==
    CASE status \in {"active", "stale"} -> "published"
      [] status = "archived"            -> "archived"
      [] status = "closed"              -> "closed"
      [] OTHER                          -> NoText

_derive_posting_status_for_candidate_state(state) ==
    CASE state = "published"              -> "active"
      [] state \in {"archived", "rejected"} -> "archived"
      [] state = "closed"                 -> "closed"
      [] OTHER                            -> NoText

(* update postings set status = $2, published_at = case when $2 = 'active'  *)
(* then coalesce(published_at, now()) else published_at end, for the rows S. *)
SetPostingStatus(posts, S, status, at) ==
    [i \in 1 .. Len(posts) |->
        IF i \in S
        THEN [posts[i] EXCEPT
                 !.status = status,
                 !.published_at = IF status = "active" /\ posts[i].published_at = NoTime
                                  THEN at ELSE posts[i].published_at]
        ELSE posts[i]]

PostingsOfCandidate(posts, c) == { i \in 1 .. Len(posts) : posts[i].candidate_id = c }

CandidateExists(c) == c \in 1 .. Len(candidates)

PostingExists(i) == i \in 1 .. Len(postings)

(* The candidate a change of posting i to `status` is derived onto: the      *)
(* posting's candidate when the derived state differs from its state.        *)
DerivedCandidate(i, status) ==
    LET c == postings[i].candidate_id
    IN  IF /\ c # NoId
           /\ CandidateExists(c)
           /\ _derive_candidate_state_for_posting_status(status) # NoText
           /\ _derive_candidate_state_for_posting_status(status) # candidates[c].state
        THEN c ELSE NoId

(* The checks of a posting status change, in the order of the handler. *)
PostingStatusError(i, status) ==
    IF ~PostingExists(i) THEN "NotFound"
    ELSE IF ~_validate_posting_status_transition(postings[i].status, status) THEN "Conflict"
    ELSE IF /\ DerivedCandidate(i, status) # NoId
            /\ ~_validate_candidate_transition(
                    candidates[DerivedCandidate(i, status)].state,
                    _derive_candidate_state_for_posting_status(status))
    THEN "Conflict"
    ELSE "ok"

(* The rows after a posting status change, and its events. *)
PostingStatusEffect(i, status, atype, at) ==
    LET c == DerivedCandidate(i, status)
        derived == _derive_candidate_state_for_posting_status(status)
    IN  [candidates |-> IF c # NoId THEN [candidates EXCEPT ![c].state = derived]
                        ELSE candidates,
         postings |-> SetPostingStatus(postings, {i}, status, at),
         links |-> links,
         decisions |-> decisions,
         events |-> <<Event("posting", i, "status_changed", atype,
                            [from_status |-> postings[i].status, to_status |-> status])>>
                    \o (IF c # NoId
                        THEN <<Event("posting_candidate", c, "state_changed", atype,
                                     [from_state |-> candidates[c].state,
                                      to_state |-> derived,
                                      posting_status |-> status])>>
                        ELSE <<>>)]

(* A result that projects nothing leaves the projection tables alone. *)
NoEffect ==
    [candidates |-> candidates, postings |-> postings, links |-> links,
     decisions |-> decisions, events |-> <<>>]

(* _apply_machine_posting_status_transition: applied, or nothing changed. *)
MachineApplies(i, status) ==
    /\ PostingExists(i)
    /\ status # postings[i].status
    /\ PostingStatusError(i, status) = "ok"

_apply_machine_posting_status_transition(i, status, at) ==
    IF MachineApplies(i, status) THEN PostingStatusEffect(i, status, "machine", at)
    ELSE NoEffect

NoFresh == [posting_id |-> NoId]

(* _apply_freshness_job_result and _apply_freshness_dead_letter_fallback. *)
FreshnessEffect(fresh, j, at) ==
    LET i == fresh.posting_id
        target == IF fresh.resolved = "done" THEN fresh.recommended_status
                  ELSE IF ~PostingExists(i) THEN NoText
                  ELSE IF postings[i].status = "active" THEN "stale"
                  ELSE IF postings[i].status = "stale" THEN "archived"
                  ELSE NoText
        applied == target \in PostingStatuses /\ MachineApplies(i, target)
        e == IF target \in PostingStatuses
             THEN _apply_machine_posting_status_transition(i, target, at)
             ELSE NoEffect
        audit == Event("job", j,
                       IF fresh.resolved = "done" THEN "freshness_result_applied"
                       ELSE "freshness_retry_exhausted",
                       "machine", [posting_id |-> i, applied |-> applied])
    IN  IF fresh.resolved = "failed" /\ ~PostingExists(i) THEN NoEffect
        ELSE [e EXCEPT !.events = e.events \o <<audit>>]

----------------------------------------------------------------------------
(* Redirect resolution: _apply_redirect_resolution_result *)

NoRedirect == [discoveries |-> discoveries, events |-> <<>>, status |-> "none"]

(* The other discoveries of the origin module without external_id that hold *)
(* the normalized_url.                                                      *)
RedirectCollisions_None(d, norm) == {}

RedirectCollisions(d, norm) ==
    { o \in 1 .. Len(discoveries) :
        /\ o # d
        /\ discoveries[o].origin_module_id = discoveries[d].origin_module_id
        /\ discoveries[o].external_id = NoText
        /\ discoveries[o].normalized_url = norm }

_apply_redirect_resolution_result(j, d, result) ==
    LET row == discoveries[d]
        next_url == IF result.resolved_url # NoUrl THEN result.resolved_url ELSE row.url
        next_normalized_url == IF result.resolved_normalized_url # NoUrl
                               THEN result.resolved_normalized_url ELSE row.normalized_url
        next_canonical_hash == IF result.resolved_canonical_hash # NoHash
                               THEN result.resolved_canonical_hash
                               ELSE IF next_normalized_url # NoUrl
                               THEN canonical_hash(next_normalized_url)
                               ELSE row.canonical_hash
        skipped == [NoRedirect EXCEPT !.status = "skipped_missing_resolution"]
    IN  IF /\ result.resolved_url = NoUrl
           /\ result.resolved_normalized_url = NoUrl
           /\ result.resolved_canonical_hash = NoHash
        THEN skipped
        ELSE IF d \notin 1 .. Len(discoveries)
        THEN [NoRedirect EXCEPT !.status = "skipped_discovery_not_found"]
        ELSE IF /\ next_url = row.url
                /\ next_normalized_url = row.normalized_url
                /\ next_canonical_hash = row.canonical_hash
        THEN [NoRedirect EXCEPT !.status = "unchanged"]
        ELSE IF /\ row.external_id = NoText
                /\ next_normalized_url # NoUrl
                /\ RedirectCollisions(d, next_normalized_url) # {}
        THEN [discoveries |-> discoveries,
              events |-> <<Event("discovery", d, "redirect_resolution_conflict", "machine",
                                 [job_id |-> j])>>,
              status |-> "conflict_skipped"]
        ELSE [discoveries |-> [discoveries EXCEPT ![d] =
                                  [row EXCEPT !.url = next_url,
                                              !.normalized_url = next_normalized_url,
                                              !.canonical_hash = next_canonical_hash]],
              events |-> <<Event("discovery", d, "redirect_resolved", "machine",
                                 [job_id |-> j])>>,
              status |-> "applied"]

----------------------------------------------------------------------------
(* Job queue: submit_job_result *)

_compute_retry_delay_seconds_Flat(attempt) ==
    Min(job_retry_base_seconds, job_retry_max_seconds)

_compute_retry_delay_seconds(attempt) ==
    IF job_retry_base_seconds <= 0 THEN 0
    ELSE Min(job_retry_base_seconds * Pow2(Max(0, attempt - 1)), job_retry_max_seconds)

ResolvedStatus_NoBound(requested, attempt) ==
    IF requested = "failed" THEN "queued" ELSE requested

(* The retry policy of a requested 'failed'. *)
ResolvedStatus(requested, attempt) ==
    IF requested = "failed"
    THEN (IF attempt >= job_max_attempts THEN "failed" ELSE "queued")
    ELSE requested

RetryDelay(requested, attempt) ==
    IF requested = "failed" /\ attempt < job_max_attempts
    THEN _compute_retry_delay_seconds(attempt)
    ELSE NoTime

SubmitError_OwnerFirst(j, m) ==
    IF ~JobExists(j) THEN "NotFound"
    ELSE IF jobs[j].locked_by_module_id # m THEN "Forbidden"
    ELSE IF jobs[j].status # "claimed" THEN "Conflict"
    ELSE "ok"

(* The checks that follow SELECT ... FOR UPDATE of the job row. *)
SubmitError(j, m) ==
    IF ~JobExists(j) THEN "NotFound"
    ELSE IF jobs[j].status # "claimed" THEN "Conflict"
    ELSE IF jobs[j].locked_by_module_id # m THEN "Forbidden"
    ELSE "ok"

SubmittedRow_KeepsLease(row, resolved, delay, at) ==
    [row EXCEPT !.status = resolved,
                !.locked_by_module_id = NoModule,
                !.locked_at = NoTime,
                !.next_run_at = IF delay = NoTime THEN row.next_run_at ELSE at + delay]

SubmittedRow(row, resolved, delay, at) ==
    [row EXCEPT !.status = resolved,
                !.locked_by_module_id = NoModule,
                !.locked_at = NoTime,
                !.lease_expires_at = NoTime,
                !.next_run_at = IF delay = NoTime THEN row.next_run_at ELSE at + delay]

SubmitEvents(j, requested, resolved, attempt, delay) ==
    <<Event("job", j, "result_submitted", "machine",
            [requested_status |-> requested, resolved_status |-> resolved,
             attempt |-> attempt])>>
    \o (IF requested = "failed" /\ resolved = "queued" /\ delay # NoTime
        THEN <<Event("job", j, "retry_scheduled", "machine", [attempt |-> attempt])>>
        ELSE <<>>)

NeedsProjection_AnyStatus(j, resolved) ==
    /\ jobs[j].kind = "extract"
    /\ jobs[j].target_type = "discovery"
    /\ jobs[j].target_id \in 1 .. Len(discoveries)

(* An extract job that resolves to done materializes its discovery. *)
NeedsProjection(j, resolved) ==
    /\ resolved = "done"
    /\ jobs[j].kind = "extract"
    /\ jobs[j].target_type = "discovery"
    /\ jobs[j].target_id \in 1 .. Len(discoveries)

(* A freshness check of a posting that resolves to done or failed. *)
NeedsFreshness(j, resolved) ==
    /\ resolved \in {"done", "failed"}
    /\ jobs[j].kind = "check_freshness"
    /\ jobs[j].target_type = "posting"
    /\ jobs[j].target_id # NoId

(* A redirect resolution of a discovery that resolves to done. *)
NeedsRedirect(j, resolved) ==
    /\ resolved = "done"
    /\ jobs[j].kind = "resolve_url_redirects"
    /\ jobs[j].target_type = "discovery"
    /\ jobs[j].target_id # NoId

SubmitTx(j, m, requested, result) ==
    LET resolved == ResolvedStatus(requested, jobs[j].attempt)
    IN  [op |-> "submit", job |-> j, module |-> m, requested |-> requested,
         result |-> result,
         attempt |-> jobs[j].attempt,
         resolved |-> resolved,
         delay |-> RetryDelay(requested, jobs[j].attempt),
         at |-> now,
         plan |-> IF NeedsProjection(j, resolved)
                  THEN ProjectionPlan(j, jobs[j].target_id, result)
                  ELSE NoPlan,
         fresh |-> IF NeedsFreshness(j, resolved)
                   THEN [posting_id |-> jobs[j].target_id, resolved |-> resolved,
                         recommended_status |-> result.recommended_status]
                   ELSE NoFresh]

(* The job row update, the projection, the events and the response. *)
SubmitWrite(p, t, cap) ==
    LET e == IF t.plan.discovery_id # NoId THEN ProjectionEffect(t.plan, t.at)
             ELSE IF t.fresh.posting_id # NoId THEN FreshnessEffect(t.fresh, t.job, t.at)
             ELSE NoEffect
        r == IF NeedsRedirect(t.job, t.resolved)
             THEN _apply_redirect_resolution_result(t.job, jobs[t.job].target_id, t.result)
             ELSE NoRedirect
        evs == e.events \o r.events
                 \o SubmitEvents(t.job, t.requested, t.resolved, t.attempt, t.delay)
    IN  /\ Len(events) + Len(evs) <= cap
        /\ jobs' = [jobs EXCEPT ![t.job] = SubmittedRow(jobs[t.job], t.resolved, t.delay, t.at)]
        /\ candidates' = e.candidates
        /\ postings' = e.postings
        /\ links' = e.links
        /\ decisions' = e.decisions
        /\ events' = events \o evs
        /\ discoveries' = r.discoveries
        /\ Reply(p, Resp("submit", t.job, "ok", t.resolved, 0))
        /\ UNCHANGED now

(* submit_job_result as one transaction. *)
SubmitResult(p, j, m, requested, result, cap) ==
    /\ IsIdle(p)
    /\ JobExists(j) => ~JobLockedByOther(j, p)
    /\ IF SubmitError(j, m) # "ok"
       THEN Reply(p, Resp("submit", j, SubmitError(j, m), NoText, 0)) /\ UNCHANGED <<now, db>>
       ELSE SubmitWrite(p, SubmitTx(j, m, requested, result), cap)
    /\ UNCHANGED tx

(* submit_job_result by statement: SELECT ... FOR UPDATE of the job row and  *)
(* its checks (an error rolls back), then the writes.                        *)
SubmitLock(p, j, m, requested, result) ==
    /\ IsIdle(p)
    /\ JobExists(j) => ~JobLockedByOther(j, p)
    /\ IF SubmitError(j, m) # "ok"
       THEN Reply(p, Resp("submit", j, SubmitError(j, m), NoText, 0)) /\ UNCHANGED tx
       ELSE Begin(p, SubmitTx(j, m, requested, result)) /\ UNCHANGED resp
    /\ UNCHANGED <<now, db>>

SubmitCommit(p, cap) ==
    /\ tx[p].op = "submit"
    /\ SubmitWrite(p, tx[p], cap)
    /\ End(p)

----------------------------------------------------------------------------
(* Moderation: candidate and posting lifecycle                               *)

(* The rows and events a moderation handler writes, and its response. *)
ModerationWrite(p, cands, posts, lnks, decs, evs, r, cap) ==
    /\ Len(events) + Len(evs) <= cap
    /\ candidates' = cands
    /\ postings' = posts
    /\ links' = lnks
    /\ decisions' = decs
    /\ events' = events \o evs
    /\ Reply(p, r)
    /\ UNCHANGED <<now, discoveries, jobs>>

ModerationError(p, r) == Reply(p, r) /\ UNCHANGED <<now, db>>

UpdateCandidateError(c, state) ==
    IF ~CandidateExists(c) THEN "NotFound"
    ELSE IF ~_validate_candidate_transition(candidates[c].state, state) THEN "Conflict"
    ELSE IF state = "published" /\ PostingsOfCandidate(postings, c) = {} THEN "Conflict"
    ELSE "ok"

CandidateStateEvents_None(c, ev, from_state, state, posting_status) == <<>>

(* The candidate and posting events of a state change or an override. *)
CandidateStateEvents(c, ev, from_state, state, posting_status) ==
    <<Event("posting_candidate", c, ev, "human",
            [from_state |-> from_state, to_state |-> state, posting_status |-> posting_status])>>
    \o (IF posting_status # NoText /\ PostingOf(postings, c) # NoId
        THEN <<Event("posting", PostingOf(postings, c), ev, "human",
                     [candidate_state |-> state, posting_status |-> posting_status])>>
        ELSE <<>>)

(* update_candidate_state as one transaction. *)
UpdateCandidateState(p, c, state, cap) ==
    /\ IsIdle(p)
    /\ IF UpdateCandidateError(c, state) # "ok"
       THEN ModerationError(p, Resp("update_candidate", c, UpdateCandidateError(c, state),
                                    NoText, 0))
       ELSE LET posting_status == _derive_posting_status_for_candidate_state(state)
            IN  ModerationWrite(
                    p,
                    [candidates EXCEPT ![c].state = state],
                    IF posting_status # NoText
                    THEN SetPostingStatus(postings, PostingsOfCandidate(postings, c),
                                          posting_status, now)
                    ELSE postings,
                    links, decisions,
                    CandidateStateEvents(c, "state_changed", candidates[c].state, state,
                                         posting_status),
                    Resp("update_candidate", c, "ok", state, 0),
                    cap)
    /\ UNCHANGED tx

OverrideCandidateError(c, state) ==
    IF ~CandidateExists(c) THEN "NotFound"
    ELSE IF state = "published" /\ PostingsOfCandidate(postings, c) = {} THEN "Conflict"
    ELSE "ok"

(* override_candidate_state as one transaction. *)
OverrideCandidateState(p, c, state, posting_status, cap) ==
    /\ IsIdle(p)
    /\ IF OverrideCandidateError(c, state) # "ok"
       THEN ModerationError(p, Resp("override_candidate", c, OverrideCandidateError(c, state),
                                    NoText, 0))
       ELSE LET resolved_posting_status ==
                    IF posting_status # NoText THEN posting_status
                    ELSE _derive_posting_status_for_candidate_state(state)
            IN  ModerationWrite(
                    p,
                    [candidates EXCEPT ![c].state = state],
                    IF resolved_posting_status # NoText
                    THEN SetPostingStatus(postings, PostingsOfCandidate(postings, c),
                                          resolved_posting_status, now)
                    ELSE postings,
                    links, decisions,
                    CandidateStateEvents(c, "state_overridden", candidates[c].state, state,
                                         resolved_posting_status),
                    Resp("override_candidate", c, "ok", state, 0),
                    cap)
    /\ UNCHANGED tx

(* merge_candidates as one transaction. *)
MergeCandidates(p, primary, secondary, cap) ==
    /\ IsIdle(p)
    /\ IF MergeError(candidates, postings, primary, secondary) # "ok"
       THEN ModerationError(p, Resp("merge", primary,
                                    MergeError(candidates, postings, primary, secondary),
                                    NoText, 0))
       ELSE LET m == _apply_candidate_merge(candidates, postings, links, decisions, primary,
                                            secondary, "human", "manual_merged",
                                            "human_moderator", NoConfidence)
            IN  ModerationWrite(p, m.candidates, m.postings, m.links, m.decisions, m.events,
                                Resp("merge", primary, "ok", m.candidates[primary].state, 0),
                                cap)
    /\ UNCHANGED tx

MergeLockOrder_PrimaryFirst(primary, secondary) == <<primary, secondary>>

(* select ... where id = any(array[primary, secondary]) order by id for     *)
(* update: the rows are locked one after the other in ascending id order.   *)
MergeLockOrder(primary, secondary) ==
    IF primary <= secondary THEN <<primary, secondary>> ELSE <<secondary, primary>>

(* The candidate rows a transaction holds locked. *)
CandidateLocks(p) ==
    CASE tx[p].op = "merge"           -> tx[p].held
      [] tx[p].op = "candidate_state" -> {tx[p].candidate}
      [] OTHER                        -> {}

CandidateLockedByOther(c, p) == \E q \in DOMAIN tx : q # p /\ c \in CandidateLocks(q)

(* The posting rows a transaction holds locked (FOR UPDATE). *)
PostingLocks(p) ==
    CASE tx[p].op = "enqueue"        -> tx[p].rows
      [] tx[p].op = "posting_status" -> {tx[p].posting}
      [] OTHER                       -> {}

PostingLockedByOther(i, p) == \E q \in DOMAIN tx : q # p /\ i \in PostingLocks(q)

MergeTx(primary, secondary) ==
    [op |-> "merge", primary |-> primary, secondary |-> secondary,
     todo |-> MergeLockOrder(primary, secondary), held |-> {}]

(* merge_candidates by statement: the check of the two ids, ...             *)
MergeBegin(p, primary, secondary) ==
    /\ IsIdle(p)
    /\ IF primary = secondary
       THEN Reply(p, Resp("merge", primary, "Conflict", NoText, 0)) /\ UNCHANGED tx
       ELSE Begin(p, MergeTx(primary, secondary)) /\ UNCHANGED resp
    /\ UNCHANGED <<now, db>>

(* ... the lock of the next row of the select, which waits while another    *)
(* transaction holds it and passes over an id that has no row, ...          *)
MergeLockNext(p) ==
    /\ tx[p].op = "merge"
    /\ tx[p].todo # <<>>
    /\ LET c == Head(tx[p].todo)
       IN  /\ ~CandidateLockedByOther(c, p)
           /\ tx' = [tx EXCEPT ![p].todo = Tail(tx[p].todo),
                               ![p].held = IF c \in 1 .. Len(candidates)
                                           THEN tx[p].held \cup {c} ELSE tx[p].held]
    /\ UNCHANGED <<now, db, resp>>

(* ... and the checks and writes on the locked rows, and the commit.        *)
MergeCommit(p, cap) ==
    /\ tx[p].op = "merge"
    /\ tx[p].todo = <<>>
    /\ LET primary == tx[p].primary
           secondary == tx[p].secondary
           error == IF Cardinality(tx[p].held) # 2 THEN "NotFound"
                    ELSE MergeError(candidates, postings, primary, secondary)
       IN  IF error # "ok"
           THEN ModerationError(p, Resp("merge", primary, error, NoText, 0))
           ELSE LET m == _apply_candidate_merge(candidates, postings, links, decisions,
                                                primary, secondary, "human", "manual_merged",
                                                "human_moderator", NoConfidence)
                IN  ModerationWrite(p, m.candidates, m.postings, m.links, m.decisions,
                                    m.events,
                                    Resp("merge", primary, "ok", m.candidates[primary].state,
                                         0),
                                    cap)
    /\ End(p)

(* update_posting_status as one transaction. *)
UpdatePostingStatus(p, i, status, cap) ==
    /\ IsIdle(p)
    /\ IF PostingStatusError(i, status) # "ok"
       THEN ModerationError(p, Resp("update_posting", i, PostingStatusError(i, status),
                                    NoText, 0))
       ELSE LET e == PostingStatusEffect(i, status, "human", now)
            IN  ModerationWrite(p, e.candidates, e.postings, e.links, e.decisions, e.events,
                                Resp("update_posting", i, "ok", status, 0), cap)
    /\ UNCHANGED tx

(* update_candidate_state and override_candidate_state by statement: the    *)
(* SELECT ... FOR UPDATE of the candidate row and the checks, then the      *)
(* UPDATE of the candidate, the UPDATE of its posting rows (which waits for *)
(* a row another transaction has locked), the events and the commit.        *)
CandidateStateTx(handler, c, state, posting_status) ==
    [op |-> "candidate_state", handler |-> handler, candidate |-> c, state |-> state,
     posting_status |-> posting_status]

CandidateStateLock(p, handler, c, state, posting_status) ==
    /\ IsIdle(p)
    /\ CandidateExists(c) => ~CandidateLockedByOther(c, p)
    /\ LET err == IF handler = "update_candidate" THEN UpdateCandidateError(c, state)
                  ELSE OverrideCandidateError(c, state)
       IN  IF err # "ok"
           THEN Reply(p, Resp(handler, c, err, NoText, 0)) /\ UNCHANGED tx
           ELSE Begin(p, CandidateStateTx(handler, c, state, posting_status))
                /\ UNCHANGED resp
    /\ UNCHANGED <<now, db>>

(* The posting status the handler writes: the override's own, or the derived. *)
ResolvedPostingStatus(t) ==
    IF t.handler = "override_candidate" /\ t.posting_status # NoText THEN t.posting_status
    ELSE _derive_posting_status_for_candidate_state(t.state)

CandidateStateCommit(p, cap) ==
    /\ tx[p].op = "candidate_state"
    /\ LET c == tx[p].candidate
           posting_status == ResolvedPostingStatus(tx[p])
       IN  /\ posting_status # NoText =>
                  \A i \in PostingsOfCandidate(postings, c) : ~PostingLockedByOther(i, p)
           /\ ModerationWrite(
                  p,
                  [candidates EXCEPT ![c].state = tx[p].state],
                  IF posting_status # NoText
                  THEN SetPostingStatus(postings, PostingsOfCandidate(postings, c),
                                        posting_status, now)
                  ELSE postings,
                  links, decisions,
                  CandidateStateEvents(c,
                                       IF tx[p].handler = "update_candidate"
                                       THEN "state_changed" ELSE "state_overridden",
                                       candidates[c].state, tx[p].state, posting_status),
                  Resp(tx[p].handler, c, "ok", tx[p].state, 0),
                  cap)
    /\ End(p)

(* update_posting_status by statement: the SELECT ... FOR UPDATE of the     *)
(* posting row and the check of its transition, then the SELECT ... FOR     *)
(* UPDATE of its candidate row (which waits for its holder), the checks,    *)
(* the writes and the commit.                                               *)
PostingStatusLock(p, i, status) ==
    /\ IsIdle(p)
    /\ PostingExists(i) => ~PostingLockedByOther(i, p)
    /\ IF ~PostingExists(i)
       THEN Reply(p, Resp("update_posting", i, "NotFound", NoText, 0)) /\ UNCHANGED tx
       ELSE IF ~_validate_posting_status_transition(postings[i].status, status)
       THEN Reply(p, Resp("update_posting", i, "Conflict", NoText, 0)) /\ UNCHANGED tx
       ELSE Begin(p, [op |-> "posting_status", posting |-> i, status |-> status])
            /\ UNCHANGED resp
    /\ UNCHANGED <<now, db>>

PostingStatusCommit(p, cap) ==
    /\ tx[p].op = "posting_status"
    /\ LET i == tx[p].posting
           c == postings[i].candidate_id
       IN  /\ c # NoId /\ CandidateExists(c) => ~CandidateLockedByOther(c, p)
           /\ IF PostingStatusError(i, tx[p].status) # "ok"
              THEN ModerationError(p, Resp("update_posting", i,
                                           PostingStatusError(i, tx[p].status), NoText, 0))
              ELSE LET e == PostingStatusEffect(i, tx[p].status, "human", now)
                   IN  ModerationWrite(p, e.candidates, e.postings, e.links, e.decisions,
                                       e.events,
                                       Resp("update_posting", i, "ok", tx[p].status, 0), cap)
    /\ End(p)

----------------------------------------------------------------------------
(* Freshness scheduler: _enqueue_due_freshness_jobs *)

FreshnessJobsOf(i) ==
    { j \in 1 .. Len(jobs) :
        /\ jobs[j].kind = "check_freshness"
        /\ jobs[j].target_type = "posting"
        /\ jobs[j].target_id = i }

(* Active or stale postings with no pending check and no check finished     *)
(* within freshness_check_interval_hours (longer than the model's clock).   *)
DuePostings ==
    { i \in 1 .. Len(postings) :
        /\ postings[i].status \in {"active", "stale"}
        /\ FreshnessJobsOf(i) = {} }

(* _enqueue_due_freshness_jobs as one transaction. *)
EnqueueFreshness(p, atype, limit, cap) ==
    /\ IsIdle(p)
    /\ \E S \in SUBSET DuePostings :
          /\ Cardinality(S) = Min(Max(1, Min(limit, 1000)), Cardinality(DuePostings))
          /\ LET order == SeqOfSet(S)
             IN  /\ Len(events) + Len(order) <= cap
                 /\ jobs' = jobs \o [k \in 1 .. Len(order) |->
                                        NewJob("check_freshness", "posting", order[k], now)]
                 /\ events' = events \o
                        [k \in 1 .. Len(order) |->
                            Event("job", Len(jobs) + k, "freshness_enqueued", atype,
                                  [posting_id |-> order[k]])]
                 /\ Reply(p, Resp("enqueue_freshness", NoId, "ok", NoText, Len(order)))
    /\ UNCHANGED <<now, discoveries, candidates, postings, links, decisions, tx>>

(* _enqueue_due_freshness_jobs by statement.  The INSERT ... SELECT reads    *)
(* postings and jobs in the snapshot taken when it starts: the job another   *)
(* transaction has inserted and not yet committed is not in it.              *)
EnqueueSnapshot(p, atype, limit) ==
    /\ IsIdle(p)
    /\ Begin(p, [op |-> "enqueue", due |-> DuePostings, rows |-> {}, locked |-> FALSE,
                 actor_type |-> atype, limit |-> limit, at |-> now])
    /\ UNCHANGED <<now, db, resp>>

(* The row locks are taken while the statement runs: a due posting that      *)
(* another transaction holds locked is skipped, one whose lock was released  *)
(* by a commit is locked, and its status is read again; the NOT EXISTS       *)
(* subqueries on jobs keep the snapshot.                                     *)
EnqueueLock(p) ==
    /\ tx[p].op = "enqueue"
    /\ ~tx[p].locked
    /\ LET avail == { i \in tx[p].due : /\ ~PostingLockedByOther(i, p)
                                        /\ postings[i].status \in {"active", "stale"} }
       IN  \E S \in SUBSET avail :
              /\ Cardinality(S) = Min(Max(1, Min(tx[p].limit, 1000)), Cardinality(avail))
              /\ tx' = [tx EXCEPT ![p].rows = S, ![p].locked = TRUE]
    /\ UNCHANGED <<now, db, resp>>

(* The inserted jobs, their events, the count returned, and the commit. *)
EnqueueCommit(p, cap) ==
    /\ tx[p].op = "enqueue"
    /\ tx[p].locked
    /\ LET order == SeqOfSet(tx[p].rows)
       IN  /\ Len(events) + Len(order) <= cap
           /\ jobs' = jobs \o [k \in 1 .. Len(order) |->
                                  NewJob("check_freshness", "posting", order[k], tx[p].at)]
           /\ events' = events \o
                  [k \in 1 .. Len(order) |->
                      Event("job", Len(jobs) + k, "freshness_enqueued", tx[p].actor_type,
                            [posting_id |-> order[k]])]
           /\ Reply(p, Resp("enqueue_freshness", NoId, "ok", NoText, Len(order)))
    /\ End(p)
    /\ UNCHANGED <<now, discoveries, candidates, postings, links, decisions>>

----------------------------------------------------------------------------
(* Discovery ingest: create_discovery_and_enqueue_extract *)

(* The committed discovery an INSERT ... ON CONFLICT DO NOTHING collides with. *)
ExistingDiscovery(m, ext, norm) ==
    { d \in 1 .. Len(discoveries) :
        /\ discoveries[d].origin_module_id = m
        /\ IF ext # NoText
           THEN discoveries[d].external_id = ext
           ELSE discoveries[d].external_id = NoText /\ discoveries[d].normalized_url = norm }

IngestTx(m, ext, url) ==
    LET norm == normalize_url(url)
    IN  [op |-> "ingest", key |-> DiscoveryKey(m, ext, norm), at |-> now,
         enqueue_redirect_resolution |-> FALSE,
         row |-> [origin_module_id |-> m, external_id |-> ext, url |-> url,
                  normalized_url |-> norm, canonical_hash |-> canonical_hash(norm)]]

(* The inserted discovery, its extract job, the 'ingested' event, the id returned. *)
IngestWrite(p, t, cap) ==
    LET d == Len(discoveries) + 1
    IN  /\ Len(events) < cap
        /\ discoveries' = Append(discoveries, t.row)
        /\ jobs' = Append(jobs, NewJob("extract", "discovery", d, t.at))
                    \o (IF t.enqueue_redirect_resolution
                        THEN <<NewJob("resolve_url_redirects", "discovery", d, t.at)>>
                        ELSE <<>>)
        /\ events' = Append(events, Event("discovery", d, "ingested", "machine", NoPayload))
        /\ Reply(p, Resp("ingest", d, "ok", NoText, 0))
        /\ UNCHANGED <<now, candidates, postings, links, decisions>>

IngestOld(p, old) ==
    Reply(p, Resp("ingest", CHOOSE d \in old : TRUE, "ok", NoText, 0))

(* create_discovery_and_enqueue_extract as one transaction. *)
create_discovery_and_enqueue_extract(p, m, ext, url, enqueue_redirect_resolution, cap) ==
    /\ IsIdle(p)
    /\ LET t == [IngestTx(m, ext, url) EXCEPT
                    !.enqueue_redirect_resolution = enqueue_redirect_resolution]
           old == ExistingDiscovery(m, ext, t.row.normalized_url)
       IN  IF old # {}
           THEN IngestOld(p, old) /\ UNCHANGED <<now, db>>
           ELSE IngestWrite(p, t, cap)
    /\ UNCHANGED tx

(* create_discovery with the redirect preference off (the default setting). *)
CreateDiscovery(p, m, ext, url, cap) ==
    create_discovery_and_enqueue_extract(p, m, ext, url, FALSE, cap)

(* create_discovery_and_enqueue_extract by statement.  The INSERT waits for  *)
(* an open transaction that has inserted the same key.                       *)
IngestInsert(p, m, ext, url) ==
    /\ IsIdle(p)
    /\ LET t == IngestTx(m, ext, url)
           old == ExistingDiscovery(m, ext, t.row.normalized_url)
       IN  /\ ~KeyHeldByOther(t.key, p)
           /\ IF old # {}
              THEN IngestOld(p, old) /\ UNCHANGED tx
              ELSE Begin(p, t) /\ UNCHANGED resp
    /\ UNCHANGED <<now, db>>

IngestCommit(p, cap) ==
    /\ tx[p].op = "ingest"
    /\ IngestWrite(p, tx[p], cap)
    /\ End(p)

----------------------------------------------------------------------------
(* Time *)

Tick(maxt) ==
    /\ now < maxt
    /\ now' = now + 1
    /\ UNCHANGED <<db, tx, resp>>

----------------------------------------------------------------------------
(* Specifications *)

InitFor(P) ==
    /\ now = 0
    /\ discoveries = <<>>
    /\ jobs = <<>>
    /\ candidates = <<>>
    /\ postings = <<>>
    /\ links = {}
    /\ decisions = {}
    /\ events = <<>>
    /\ tx = [p \in P |-> Idle]
    /\ resp = NoResp

JobIds == 1 .. 2
Requested == {"done", "failed", "dead_letter"}
PageUrl == [page |-> "a", slash |-> TRUE, utm |-> TRUE]
GoodResult == PostingPayload({"phd"}, 9000)

(* A worker reports an extraction only with a done result. *)
ResultsFor(r) == IF r = "done" THEN {NoResult, GoodResult} ELSE {NoResult}

(* One handler at a time: the life of a job through claim, result, retry and reap. *)
Init == InitFor({1})

Next ==
    \/ Tick(MaxTime)
    \/ CreateDiscovery(1, "m1", NoText, PageUrl, MaxEvents)
    \/ \E j \in JobIds, m \in Modules, l \in LeaseChoices : ClaimJob(1, j, m, l, MaxEvents)
    \/ \E j \in JobIds, m \in Modules, r \in Requested : \E x \in ResultsFor(r) :
          SubmitResult(1, j, m, r, x, MaxEvents)
    \/ \E n \in 1 .. 2 : ReapExpired(1, "machine", n, MaxEvents)

Spec == Init /\ [][Next]_vars

(* A worker that claims and then crashes: no result is ever submitted.  The *)
(* clock advances, and the worker loops keep reaping and claiming (run_worker *)
(* polls the queue and reaps on every interval), so these steps are fair.    *)
(* A worker claims the jobs the queue lists; a claim is taken only while its *)
(* lease ends within the horizon of the clock and the log has room for the   *)
(* requeue that follows it.                                                  *)
LiveClaim(j) ==
    /\ JobExists(j) /\ Claimable(j)
    /\ \E m \in Modules, l \in LeaseChoices :
          now + l <= MaxTime /\ ClaimJob(1, j, m, l, MaxEventsLive - 1)

LiveReap == \E n \in 1 .. 2 : ReapExpired(1, "machine", n, MaxEventsLive)

NextLive ==
    \/ Tick(MaxTime)
    \/ CreateDiscovery(1, "m1", NoText, PageUrl, MaxEventsLive - 2)
    \/ \E j \in JobIds : LiveClaim(j)
    \/ LiveReap

SpecLive ==
    /\ Init
    /\ [][NextLive]_vars
    /\ WF_vars(Tick(MaxTime))
    /\ WF_vars(LiveReap)
    /\ \A j \in JobIds : WF_vars(LiveClaim(j))

(* Two workers, each its own module, whose claim and reap transactions      *)
(* interleave statement by statement within one tick of the clock.          *)
Workers == 1 .. 2

ModuleOf(p) == IF p = 1 THEN "m1" ELSE "m2"

ShortLeases == {0, 1}

InitConc == InitFor(Workers)

NextConc ==
    \/ \E ext \in ExternalIds :
          CreateDiscovery(1, "m1", ext, PageUrl, MaxEventsConc)
    \/ \E p \in Workers, j \in JobIds, l \in ShortLeases : ClaimUpdate(p, j, ModuleOf(p), l)
    \/ \E p \in Workers : ClaimCommit(p, MaxEventsConc)
    \/ \E p \in Workers, j \in JobIds :
          SubmitResult(p, j, ModuleOf(p), "failed", NoResult, MaxEventsConc)
    \/ \E p \in Workers, n \in 1 .. 2 : ReapSelect(p, "machine", n)
    \/ \E p \in Workers : ReapCommit(p, MaxEventsConc)

SpecConc == InitConc /\ [][NextConc]_vars

(* Two connectors post discoveries of one origin module at the same time. *)
NextIngest ==
    \/ \E p \in Workers, ext \in ExternalIds, u \in RawUrls :
          IngestInsert(p, "m1", ext, u)
    \/ \E p \in Workers : IngestCommit(p, MaxEventsIngest)

SpecIngest == InitConc /\ [][NextIngest]_vars

(* Two workers hold the extract jobs of two discoveries of one page and      *)
(* submit their results at the same time.                                    *)
NextProj ==
    \/ \E ext \in ExternalIds :
          CreateDiscovery(1, "m1", ext, PageUrl, MaxEventsProj)
    \/ \E p \in Workers, j \in JobIds : ClaimJob(p, j, ModuleOf(p), MaxLease, MaxEventsProj)
    \/ \E p \in Workers, j \in JobIds, x \in {NoResult, GoodResult} :
          SubmitLock(p, j, ModuleOf(p), "done", x)
    \/ \E p \in Workers : SubmitCommit(p, MaxEventsProj)

SpecProj == InitConc /\ [][NextProj]_vars

(* A moderator and a worker, one handler at a time, on one discovery: the    *)
(* extraction result, then the candidate and posting lifecycle.              *)
AltResult == PostingPayload({"postdoc"}, 9000)
SureResult == PostingPayload({"phd"}, 9900)
LowResult == PostingPayload({"phd"}, NoConfidence)

ModCandidateIds == 1 .. 2
ModPostingIds == 1 .. 1
OverrideStates == {"archived", "published", "rejected"}
OverrideStatuses == {NoText, "closed"}

NextMod ==
    \/ CreateDiscovery(1, "m1", NoText, PageUrl, MaxEventsMod)
    \/ ClaimJob(1, 1, "m1", MaxLease, MaxEventsMod)
    \/ \E x \in {GoodResult, LowResult} :
          SubmitResult(1, 1, "m1", "done", x, MaxEventsMod)
    \/ \E c \in ModCandidateIds, st \in CandidateStates :
          UpdateCandidateState(1, c, st, MaxEventsMod)
    \/ \E c \in ModCandidateIds, st \in OverrideStates, ps \in OverrideStatuses :
          OverrideCandidateState(1, c, st, ps, MaxEventsMod)
    \/ \E a, b \in ModCandidateIds : MergeCandidates(1, a, b, MaxEventsMod)
    \/ \E i \in ModPostingIds, st \in PostingStatuses :
          UpdatePostingStatus(1, i, st, MaxEventsMod)

SpecMod == Init /\ [][NextMod]_vars

(* Two discoveries of one page, one handler at a time: their extraction      *)
(* results meet on one canonical hash, and a moderator archives, publishes   *)
(* or merges the candidates.                                                 *)
DupJobIds == 1 .. 2
DupStates == {"archived", "published"}

NextDup ==
    \/ \E ext \in ExternalIds : CreateDiscovery(1, "m1", ext, PageUrl, MaxEventsDup)
    \/ \E j \in DupJobIds : ClaimJob(1, j, "m1", MaxLease, MaxEventsDup)
    \/ \E j \in DupJobIds : \E x \in {GoodResult, SureResult, AltResult, LowResult} :
          SubmitResult(1, j, "m1", "done", x, MaxEventsDup)
    \/ \E c \in ModCandidateIds, st \in DupStates :
          UpdateCandidateState(1, c, st, MaxEventsDup)
    \/ \E a, b \in ModCandidateIds : MergeCandidates(1, a, b, MaxEventsDup)

SpecDup == Init /\ [][NextDup]_vars

(* One worker and the discoveries of a trusted and of an untrusted module:  *)
(* the extraction of the first discovery ranges over confidences, hints of  *)
(* candidate state and posting status, source keys and risk flags; the      *)
(* submission is taken statement by statement, its decisions visible        *)
(* between the lock of the job row and the writes.                          *)
TrustKeys == {NoKey} \cup { row.source_key : row \in source_trust_policy }

TrustResults ==
    { NoResult } \cup
    { ExtractionResult({}, 9000, cs, NoText, NoKey, {}) : cs \in {NoText, "published"} } \cup
    { ExtractionResult({"phd"}, conf, NoText, NoText, key, {}) :
        conf \in {NoConfidence, 6000, 9000}, key \in TrustKeys } \cup
    { ExtractionResult({"phd"}, 10000, cs, ps, key, {}) :
        cs \in {NoText, "published", "publishable", "rejected"}, ps \in {NoText, "active"},
        key \in {NoKey, <<"source", "blocked">>} } \cup
    { ExtractionResult({"phd"}, 9000, NoText, NoText, key, flags) :
        key \in {NoKey, <<"source", "semi">>},
        flags \in {{"source_conflict"}, {"stale_source"}} }

(* The extraction of a second discovery of the page agrees with the first   *)
(* on the title or not.                                                     *)
TrustResultsFor(j) ==
    IF ~JobExists(j) THEN {NoResult}
    ELSE IF jobs[j].target_id = 1 THEN TrustResults
    ELSE {GoodResult, AltResult}

NextTrust ==
    \/ \E m \in Modules : CreateDiscovery(1, m, NoText, PageUrl, MaxEventsTrust)
    \/ \E j \in JobIds : ClaimJob(1, j, "m1", MaxLease, MaxEventsTrust)
    \/ \E j \in JobIds : \E x \in TrustResultsFor(j) : SubmitLock(1, j, "m1", "done", x)
    \/ SubmitCommit(1, MaxEventsTrust)

SpecTrust == Init /\ [][NextTrust]_vars

(* The dedupe scorer called on its own: the call frame holds an incoming    *)
(* snapshot and up to two existing ones, which agree with it or not on the  *)
(* hash, the URLs, the title, the organization and the text, and the step   *)
(* applies evaluate_merge_policy to them.                                   *)
Snapshot(id, hash, url, title, org, text, has_posting) ==
    [candidate_id |-> id, canonical_hash |-> hash, normalized_url |-> url,
     canonical_url |-> url, title |-> title, organization_name |-> org,
     phrase |-> text, organizations |-> text, has_posting |-> has_posting]

IncomingSnapshot == Snapshot(NoId, "h1", "u1", {"phd", "stats"}, "org", {"ml"}, TRUE)

FirstSnapshots ==
    { Snapshot(1, hash, url, title, org, text, has_posting) :
        hash \in {"h1", "h2"}, url \in {"u1", "u2"},
        title \in {{"phd", "stats"}, {"phd"}, {"postdoc"}, {}},
        org \in {"org", "lab", NoText}, text \in {{"ml"}, {}}, has_posting \in BOOLEAN }

SecondSnapshots ==
    { Snapshot(2, hash, url, title, "org", text, TRUE) :
        hash \in {"h1", "h2"}, url \in {"u1", "u2"},
        title \in {{"phd", "stats"}, {"postdoc"}, {}}, text \in {{"ml"}, {}} }

ExistingLists ==
    {{}} \cup { {a} : a \in FirstSnapshots }
         \cup { {a, b} : a \in FirstSnapshots, b \in SecondSnapshots }

InitScore ==
    /\ now = 0
    /\ discoveries = <<>>
    /\ jobs = <<>>
    /\ candidates = <<>>
    /\ postings = <<>>
    /\ links = {}
    /\ decisions = {}
    /\ events = <<>>
    /\ resp = NoResp
    /\ \E existing \in ExistingLists :
          tx = [p \in 1 .. 1 |-> [op |-> "evaluate", incoming |-> IncomingSnapshot,
                                  existing |-> existing]]

Evaluate(p) ==
    /\ tx[p].op = "evaluate"
    /\ tx' = [tx EXCEPT ![p] = [op |-> "evaluated", incoming |-> tx[p].incoming,
                                existing |-> tx[p].existing,
                                decision |-> evaluate_merge_policy(tx[p].incoming,
                                                                   tx[p].existing)]]
    /\ UNCHANGED <<now, db, resp>>

NextScore == Evaluate(1)

SpecScore == InitScore /\ [][NextScore]_vars

(* A worker and a moderator, one handler at a time, on the discoveries of   *)
(* two pages: each extraction yields a candidate with or without a posting, *)
(* and the moderator merges candidates, existing or not, in either          *)
(* direction.                                                               *)
OtherUrl == [page |-> "b", slash |-> FALSE, utm |-> FALSE]
MergeCandidateIds == 1 .. 3

NextMerge ==
    \/ \E u \in {PageUrl, OtherUrl} : CreateDiscovery(1, "m1", NoText, u, MaxEventsMerge)
    \/ \E j \in JobIds : ClaimJob(1, j, "m1", MaxLease, MaxEventsMerge)
    \/ \E j \in JobIds, x \in {NoResult, GoodResult} :
          SubmitResult(1, j, "m1", "done", x, MaxEventsMerge)
    \/ \E a, b \in MergeCandidateIds : MergeCandidates(1, a, b, MaxEventsMerge)

SpecMerge == Init /\ [][NextMerge]_vars

(* Discoveries of two pages, one of them found twice: extraction results   *)
(* insert postings of two canonical hashes, upsert onto an existing hash    *)
(* and merge automatically, and a moderator merges candidates into the     *)
(* first one.                                                               *)
OwnJobIds == 1 .. 3
OwnCandidateIds == 1 .. 3
OwnPrimaryIds == {1}
OwnFeed == <<<<NoText, PageUrl>>, <<NoText, OtherUrl>>, <<"e1", PageUrl>>>>

NextOwn ==
    \/ \E n \in DOMAIN OwnFeed :
          /\ n = Len(discoveries) + 1
          /\ CreateDiscovery(1, "m1", OwnFeed[n][1], OwnFeed[n][2], MaxEventsOwn)
    \/ \E j \in OwnJobIds : ClaimJob(1, j, "m1", MaxLease, MaxEventsOwn)
    \/ \E j \in OwnJobIds : \E x \in {GoodResult, AltResult} :
          SubmitResult(1, j, "m1", "done", x, MaxEventsOwn)
    \/ \E a \in OwnPrimaryIds, b \in OwnCandidateIds : MergeCandidates(1, a, b, MaxEventsOwn)

SpecOwn == Init /\ [][NextOwn]_vars

(* Two moderators whose merge_candidates transactions interleave statement  *)
(* by statement, on candidates a worker has materialized before; a merge is *)
(* begun only while the log has room for the events of every open merge.    *)
Moderators == 1 .. 2
LockCandidateIds == 1 .. 2
OpenMerges == { p \in Moderators : tx[p].op = "merge" }
AllIdle == \A p \in Moderators : IsIdle(p)

NextLock ==
    \/ AllIdle /\ \E u \in {PageUrl, OtherUrl} :
          CreateDiscovery(1, "m1", NoText, u, MaxEventsLock)
    \/ AllIdle /\ \E j \in JobIds : ClaimJob(1, j, "m1", MaxLease, MaxEventsLock)
    \/ AllIdle /\ \E j \in JobIds, x \in {NoResult, GoodResult} :
          SubmitResult(1, j, "m1", "done", x, MaxEventsLock)
    \/ \E p \in Moderators, a, b \in LockCandidateIds :
          /\ Len(events) + 4 * (Cardinality(OpenMerges) + 1) <= MaxEventsLock
          /\ MergeBegin(p, a, b)
    \/ \E p \in Moderators : MergeLockNext(p)
    \/ \E p \in Moderators : MergeCommit(p, MaxEventsLock)

(* A lock that is free is granted to a transaction that waits for it (the   *)
(* lock queue of the database), and a transaction that holds its locks runs *)
(* to its commit.                                                           *)
SpecLock ==
    /\ InitConc
    /\ [][NextLock]_vars
    /\ \A p \in Moderators : SF_vars(MergeLockNext(p)) /\ WF_vars(MergeCommit(p, MaxEventsLock))

(* Two schedulers whose enqueue transactions interleave statement by        *)
(* statement over the posting a worker has projected.                       *)
Schedulers == 1 .. 2
EnqueueLimits == {1, 2}

NextEnqueue ==
    \/ CreateDiscovery(1, "m1", NoText, PageUrl, MaxEventsEnqueue)
    \/ \E j \in JobIds : ClaimJob(1, j, "m1", MaxLease, MaxEventsEnqueue)
    \/ \E j \in JobIds : SubmitResult(1, j, "m1", "done", GoodResult, MaxEventsEnqueue)
    \/ \E p \in Schedulers, n \in EnqueueLimits : EnqueueSnapshot(p, "machine", n)
    \/ \E p \in Schedulers : EnqueueLock(p)
    \/ \E p \in Schedulers : EnqueueCommit(p, MaxEventsEnqueue)

SpecEnqueue == InitConc /\ [][NextEnqueue]_vars

(* One worker, one scheduler and one moderator, one handler at a time, on   *)
(* the posting of one discovery: its freshness check is enqueued, claimed   *)
(* and submitted done with a recommended status, or failed until the        *)
(* retries are exhausted, and the moderator once sends the candidate back   *)
(* to review or changes the status of the posting; the clock advances while *)
(* a retry waits for its next_run_at.                                       *)
FreshStatuses == {"stale", "archived", "closed"}
Unmoderated == \A k \in 1 .. Len(events) : events[k].actor_type # "human"
RetryWaits == \E j \in 1 .. Len(jobs) : jobs[j].status = "queued" /\ jobs[j].next_run_at > now

NextFresh ==
    \/ CreateDiscovery(1, "m1", NoText, PageUrl, MaxEventsFresh)
    \/ \E j \in JobIds : ClaimJob(1, j, "m1", MaxLease, MaxEventsFresh)
    \/ SubmitResult(1, 1, "m1", "done", GoodResult, MaxEventsFresh)
    \/ \E st \in PostingStatuses :
          SubmitResult(1, 2, "m1", "done", FreshnessResult(st), MaxEventsFresh)
    \/ SubmitResult(1, 2, "m1", "failed", NoResult, MaxEventsFresh)
    \/ EnqueueFreshness(1, "machine", 1, MaxEventsFresh)
    \/ Unmoderated /\ OverrideCandidateState(1, 1, "needs_review", NoText, MaxEventsFresh)
    \/ Unmoderated /\ \E st \in FreshStatuses : UpdatePostingStatus(1, 1, st, MaxEventsFresh)
    \/ RetryWaits /\ Tick(MaxTime)

SpecFresh == Init /\ [][NextFresh]_vars

(* Two discoveries of one module, each with a redirect resolution job; the  *)
(* resolver reports the second page, with any of the three resolved keys.   *)
(* The redirect job of a discovery is inserted after its extract job.       *)
RedirectJobIds == {2, 4}

RedirectResults ==
    { RedirectResult(u, n, h) :
        u \in {NoUrl, OtherUrl},
        n \in {NoUrl, normalize_url(OtherUrl)},
        h \in {NoHash, canonical_hash(normalize_url(OtherUrl))} }

NextRedirect ==
    \/ \E ext \in ExternalIds, u \in {PageUrl, OtherUrl} :
          create_discovery_and_enqueue_extract(1, "m1", ext, u, TRUE, MaxEventsRedirect)
    \/ \E j \in RedirectJobIds : ClaimJob(1, j, "m1", MaxLease, MaxEventsRedirect)
    \/ \E j \in RedirectJobIds, x \in RedirectResults :
          SubmitResult(1, j, "m1", "done", x, MaxEventsRedirect)

SpecRedirect == Init /\ [][NextRedirect]_vars

(* normalize_url called on its own: the call frame holds a URL and an       *)
(* override table, and each step normalizes the URL the last one returned.  *)
UrlHosts == {<<"example", "com">>, <<"www", "example", "com">>, <<"jobs", "example", "com">>}

UrlPaths == {<<>>, <<"/">>, <<"/", "a">>, <<"/", "a", "/">>, <<"/", "a", "/", "/">>}

UrlQueries ==
    {<<>>, <<QueryKey("", "b"), QueryKey("", "a")>>,
     <<QueryKey("utm_", "source"), QueryKey("", "a")>>, <<QueryKey("", "sid")>>}

UrlInputs ==
    { Url(scheme, host, port, path, query) :
        scheme \in {"http", "https"}, host \in UrlHosts, port \in {"", "80", "443"},
        path \in UrlPaths, query \in UrlQueries }

OverrideTables ==
    {{},
     {Override(<<"example", "com">>, TRUE, FALSE, {}, {})},
     {Override(<<"example", "com">>, FALSE, TRUE, {QueryKey("", "sid")}, {})},
     {Override(<<"example", "com">>, FALSE, FALSE, {}, {}),
      Override(<<"www", "example", "com">>, TRUE, TRUE, {}, {"utm_"})}}

InitUrl ==
    /\ now = 0
    /\ discoveries = <<>>
    /\ jobs = <<>>
    /\ candidates = <<>>
    /\ postings = <<>>
    /\ links = {}
    /\ decisions = {}
    /\ events = <<>>
    /\ resp = NoResp
    /\ \E u \in UrlInputs, t \in OverrideTables :
          tx = <<[op |-> "normalize", raw_url |-> u, overrides |-> t, returned |-> <<>>]>>

Normalize(p) ==
    /\ tx[p].op = "normalize"
    /\ Len(tx[p].returned) < MaxNormalizations
    /\ LET arg == IF tx[p].returned = <<>> THEN tx[p].raw_url
                  ELSE tx[p].returned[Len(tx[p].returned)]
       IN  tx' = [tx EXCEPT ![p].returned =
                     Append(@, worker_normalize_url(arg, tx[p].overrides))]
    /\ UNCHANGED <<now, db, resp>>

NextUrl == Normalize(1)

SpecUrl == InitUrl /\ [][NextUrl]_vars

(* get_human_principal called on its own: the call frame holds the user     *)
(* record the identity provider returned for the bearer token.              *)
MetadataRoles == {NoText, "", "user", "moderator", "admin", "owner"}

Metadatas == {Metadata(FALSE, NoText)} \cup { Metadata(TRUE, r) : r \in MetadataRoles }

UserRecords ==
    { [id |-> id, app_metadata |-> a, user_metadata |-> u] :
        id \in {"", "user-1"}, a \in Metadatas, u \in Metadatas }

InitRole ==
    /\ now = 0
    /\ discoveries = <<>>
    /\ jobs = <<>>
    /\ candidates = <<>>
    /\ postings = <<>>
    /\ links = {}
    /\ decisions = {}
    /\ events = <<>>
    /\ resp = NoResp
    /\ \E user \in UserRecords : tx = <<[op |-> "authenticate", user |-> user]>>

get_human_principal(p) ==
    /\ tx[p].op = "authenticate"
    /\ LET user == tx[p].user
           role == _resolve_human_role(user)
       IN  tx' = [tx EXCEPT ![p] =
                     IF user.id = ""
                     THEN [op |-> "unauthorized", user |-> user]
                     ELSE [op |-> "principal", user |-> user, subject |-> user.id,
                           role |-> role, scopes |-> ROLE_SCOPES(role)]]
    /\ UNCHANGED <<now, db, resp>>

NextRole == get_human_principal(1)

SpecRole == InitRole /\ [][NextRole]_vars

(* run_worker: a worker claims a job, executes it and submits the result of *)
(* the job it was given.  Its frame remembers the job and the claim that    *)
(* gave it (the job's attempt after that claim); the service gets neither   *)
(* in submit_result, only the job id and the module.                        *)
WorkerClaim(p, j, m, lease, cap) ==
    /\ IsIdle(p)
    /\ JobExists(j) => ~JobLockedByOther(j, p)
    /\ IF JobExists(j) /\ Claimable(j)
       THEN /\ ClaimWrite(p, ClaimTx(j, m, lease), cap)
            /\ tx' = [tx EXCEPT ![p] = [op |-> "working", job |-> j, module |-> m,
                                        attempt |-> jobs[j].attempt + 1]]
       ELSE /\ Reply(p, Resp("claim", j, ClaimError(j), NoText, 0))
            /\ UNCHANGED <<now, db, tx>>

WorkerSubmit(p, requested, result, cap) ==
    /\ tx[p].op = "working"
    /\ ~JobLockedByOther(tx[p].job, p)
    /\ IF SubmitError(tx[p].job, tx[p].module) # "ok"
       THEN /\ Reply(p, Resp("submit", tx[p].job, SubmitError(tx[p].job, tx[p].module),
                             NoText, 0))
            /\ UNCHANGED <<now, db>>
       ELSE SubmitWrite(p, SubmitTx(tx[p].job, tx[p].module, requested, result), cap)
    /\ End(p)

(* Two workers and the process that ingests and reaps. *)
Reaper == Cardinality(Workers) + 1

NextLease ==
    \/ Tick(MaxTime)
    \/ CreateDiscovery(Reaper, "m1", NoText, PageUrl, MaxEventsLease)
    \/ \E p \in Workers, m \in Modules, l \in ShortLeases :
          WorkerClaim(p, 1, m, l, MaxEventsLease)
    \/ \E p \in Workers : WorkerSubmit(p, "done", GoodResult, MaxEventsLease)
    \/ ReapExpired(Reaper, "machine", 1, MaxEventsLease)

SpecLease == InitFor(Workers \cup {Reaper}) /\ [][NextLease]_vars

(* Two moderators change the state of a published candidate and the status  *)
(* of its posting at the same time.                                         *)
NextModLock ==
    \/ AllIdle /\ CreateDiscovery(1, "m1", NoText, PageUrl, MaxEventsModLock)
    \/ AllIdle /\ ClaimJob(1, 1, "m1", MaxLease, MaxEventsModLock)
    \/ AllIdle /\ SubmitResult(1, 1, "m1", "done", GoodResult, MaxEventsModLock)
    \/ \E p \in Moderators, state \in {"archived", "closed"} :
          CandidateStateLock(p, "update_candidate", 1, state, NoText)
    \/ \E p \in Moderators, state \in {"needs_review", "archived"} :
          CandidateStateLock(p, "override_candidate", 1, state, NoText)
    \/ \E p \in Moderators : CandidateStateCommit(p, MaxEventsModLock)
    \/ \E p \in Moderators, status \in {"stale", "archived"} : PostingStatusLock(p, 1, status)
    \/ \E p \in Moderators : PostingStatusCommit(p, MaxEventsModLock)

SpecModLock == InitConc /\ [][NextModLock]_vars

----------------------------------------------------------------------------
(* Properties of the job queue *)

Terminal == {"done", "failed", "dead_letter"}

LockSet(row) ==
    /\ row.locked_by_module_id # NoModule
    /\ row.locked_at # NoTime
    /\ row.lease_expires_at # NoTime

LockNull(row) ==
    /\ row.locked_by_module_id = NoModule
    /\ row.locked_at = NoTime
    /\ row.lease_expires_at = NoTime

(* C1: a claimed job has locked_by_module_id, locked_at and lease_expires_at *)
(* all set; a queued, done, failed or dead_letter job has all three NULL.    *)
C1_LockFields ==
    \A j \in 1 .. Len(jobs) :
        /\ jobs[j].status = "claimed" => LockSet(jobs[j])
        /\ jobs[j].status \in {"queued"} \cup Terminal => LockNull(jobs[j])

(* A job back in the queue after a submission that was resolved to a retry. *)
C1_Witness ==
    \E j \in 1 .. Len(jobs) :
        /\ jobs[j].status = "queued"
        /\ jobs[j].attempt = 1
        /\ JobEvents(j, "retry_scheduled") = 1

(* C2: a job's status moves only queued -> claimed, claimed -> done, failed, *)
(* dead_letter or queued; a terminal job never changes again; attempt grows  *)
(* by exactly 1 on a claim and is changed by nothing else.                   *)
C2_JobStep(j) ==
    LET old == jobs[j]
        new == jobs'[j]
    IN  /\ old.status \in Terminal => new = old
        /\ old.status = "queued" => new.status \in {"queued", "claimed"}
        /\ old.status = "claimed" => new.status \in {"claimed", "queued"} \cup Terminal
        /\ new.attempt = IF old.status = "queued" /\ new.status = "claimed"
                         THEN old.attempt + 1 ELSE old.attempt

C2_StatusGraph == [][\A j \in 1 .. Len(jobs) : C2_JobStep(j)]_vars

(* A job claimed, requeued and claimed again, then finished. *)
C2_Witness ==
    \E j \in 1 .. Len(jobs) :
        /\ jobs[j].status \in Terminal
        /\ jobs[j].attempt = 2
        /\ JobEvents(j, "claimed") = 2

(* The result_submitted events of a job that requested 'failed', in log order. *)
C4_FailedSubmissions(j) ==
    { i \in EventsOf("job", j, "result_submitted") :
        events[i].payload.requested_status = "failed" }

(* C4: once job_max_attempts failed results have been submitted for a job it *)
(* is in a terminal status, a claim of it is answered Conflict, and the log  *)
(* holds no 'claimed' event for it after the last of those submissions.      *)
C4_RetryBound ==
    \A j \in 1 .. Len(jobs) :
        Cardinality(C4_FailedSubmissions(j)) >= job_max_attempts =>
            /\ jobs[j].status \in {"failed", "dead_letter"}
            /\ resp.op = "claim" /\ resp.id = j => resp.result = "Conflict"
            /\ \E i \in C4_FailedSubmissions(j) :
                   \A k \in EventsOf("job", j, "claimed") : k < i

(* The job has failed job_max_attempts times and a later claim was refused. *)
C4_Witness ==
    \E j \in 1 .. Len(jobs) :
        /\ Cardinality(C4_FailedSubmissions(j)) = job_max_attempts
        /\ resp = Answer(1, Resp("claim", j, "Conflict", NoText, 0))

(* The statuses the failed submissions of a job were resolved to, in order. *)
C5_ResolvedOf(j) ==
    LET order == SeqOfSet(C4_FailedSubmissions(j))
    IN  [i \in 1 .. Len(order) |-> events[order[i]].payload.resolved_status]

(* C5: with job_max_attempts = 3, three consecutive failed submissions on a  *)
(* job return queued, queued, dead_letter; the job ends in dead_letter and   *)
(* the log holds two retry_scheduled events and one dead_lettered event.     *)
C5_DeadLetter ==
    \A j \in 1 .. Len(jobs) :
        /\ job_max_attempts = 3
        /\ Cardinality(C4_FailedSubmissions(j)) = 3
        /\ JobEvents(j, "lease_requeued") = 0
        => /\ C5_ResolvedOf(j) = <<"queued", "queued", "dead_letter">>
           /\ jobs[j].status = "dead_letter"
           /\ JobEvents(j, "retry_scheduled") = 2
           /\ JobEvents(j, "dead_lettered") = 1

(* C6: submit_result answers NotFound for an unknown job, Forbidden for a    *)
(* job claimed by another module, Conflict for a job that is not claimed,    *)
(* and in each of these cases leaves every table and the log unchanged.      *)
C6_Case(j, m) ==
    IF ~JobExists(j) THEN "NotFound"
    ELSE IF jobs[j].status = "claimed" /\ jobs[j].locked_by_module_id # m THEN "Forbidden"
    ELSE IF jobs[j].status # "claimed" THEN "Conflict"
    ELSE "accepted"

C6_SubmitErrors ==
    [][\A j \in JobIds, m \in Modules, r \in Requested : \A x \in ResultsFor(r) :
          SubmitResult(1, j, m, r, x, MaxEvents) /\ C6_Case(j, m) # "accepted"
          => resp' = Answer(1, Resp("submit", j, C6_Case(j, m), NoText, 0)) /\ UNCHANGED db]_vars

(* A module other than the holder of the lease submitted and was refused. *)
C6_Witness ==
    \E j \in 1 .. Len(jobs) :
        /\ jobs[j].status = "claimed"
        /\ resp = Answer(1, Resp("submit", j, "Forbidden", NoText, 0))

----------------------------------------------------------------------------
(* Properties of concurrent claims and reapers *)

(* C3: of the claims that race for one queued, due job exactly one updates   *)
(* the row: it finds the job queued, raises attempt by 1, names its module   *)
(* in the lock fields and appends one 'claimed' event; any other claim of an *)
(* existing job is answered Conflict and changes nothing.                    *)
C3_Winner(p) ==
    tx[p].op = "claim" /\ tx'[p].op = "idle" =>
        \A j \in {tx[p].job} :
            /\ jobs[j].status = "queued"
            /\ jobs'[j].status = "claimed"
            /\ jobs'[j].locked_by_module_id = tx[p].module
            /\ jobs'[j].attempt = jobs[j].attempt + 1
            /\ JobEventsIn(events', j, "claimed") = JobEvents(j, "claimed") + 1
            /\ Len(events') = Len(events) + 1
            /\ resp' = Answer(p, Resp("claim", j, "ok", "claimed", 0))

C3_Loser ==
    resp' # resp /\ resp'.op = "claim" /\ resp'.result # "ok" /\ JobExists(resp'.id) =>
        resp'.result = "Conflict" /\ UNCHANGED db

C3_OneOpenClaim ==
    /\ \A p, q \in DOMAIN tx :
          p # q /\ tx[p].op = "claim" /\ tx[q].op = "claim" => tx[p].job # tx[q].job
    /\ \A j \in 1 .. Len(jobs) : jobs[j].attempt = JobEvents(j, "claimed")

C3_ClaimRace == []C3_OneOpenClaim /\ [][C3_Loser /\ \A p \in DOMAIN tx : C3_Winner(p)]_vars

(* Worker 1 holds the job after one claim and worker 2 was answered Conflict. *)
C3_Witness ==
    \E j \in 1 .. Len(jobs) :
        /\ jobs[j].status = "claimed"
        /\ jobs[j].locked_by_module_id = "m1"
        /\ jobs[j].attempt = 1
        /\ JobEvents(j, "claimed") = 1
        /\ resp = Answer(2, Resp("claim", j, "Conflict", NoText, 0))

(* C7: a reaper takes only claimed jobs whose lease has expired, as many as  *)
(* its limit allows; two reapers never hold the same job; a reaper's commit  *)
(* requeues each of its jobs (lock fields NULL, next_run_at = its now(),     *)
(* attempt unchanged), touches no other job, appends one lease_requeued      *)
(* event per job and returns their number.                                   *)
C7_Select(p) ==
    tx[p].op = "idle" /\ tx'[p].op = "reap" =>
        LET free == { j \in 1 .. Len(jobs) :
                        /\ jobs[j].status = "claimed"
                        /\ jobs[j].lease_expires_at <= now
                        /\ \A q \in DOMAIN tx : q # p /\ tx[q].op = "reap" => j \notin tx[q].rows }
        IN  /\ tx'[p].rows \subseteq free
            /\ \E n \in 1 .. 2 : Cardinality(tx'[p].rows) = Min(n, Cardinality(free))
            /\ UNCHANGED db

C7_Commit(p) ==
    tx[p].op = "reap" /\ tx'[p].op = "idle" =>
        /\ Len(jobs') = Len(jobs)
        /\ \A j \in 1 .. Len(jobs) :
              IF j \in tx[p].rows
              THEN /\ jobs[j].status = "claimed"
                   /\ jobs'[j] = [jobs[j] EXCEPT !.status = "queued",
                                                 !.locked_by_module_id = NoModule,
                                                 !.locked_at = NoTime,
                                                 !.lease_expires_at = NoTime,
                                                 !.next_run_at = tx[p].at]
                   /\ JobEventsIn(events', j, "lease_requeued")
                          = JobEvents(j, "lease_requeued") + 1
              ELSE jobs'[j] = jobs[j]
        /\ Len(events') = Len(events) + Cardinality(tx[p].rows)
        /\ resp' = Answer(p, Resp("reap", NoId, "ok", NoText, Cardinality(tx[p].rows)))

C7_Partition ==
    \A p, q \in DOMAIN tx :
        p # q /\ tx[p].op = "reap" /\ tx[q].op = "reap" => tx[p].rows \cap tx[q].rows = {}

C7_Reapers ==
    []C7_Partition /\ [][\A p \in DOMAIN tx : C7_Select(p) /\ C7_Commit(p)]_vars

(* Two reapers are open at once, each holding one of two expired jobs. *)
C7_Witness ==
    /\ tx[1].op = "reap" /\ tx[1].rows # {}
    /\ tx[2].op = "reap" /\ tx[2].rows # {}

----------------------------------------------------------------------------
(* Progress of an abandoned claim *)

(* C8: a claimed job whose worker submits nothing returns to the queue,      *)
(* claimable, once its lease has expired and a reaper has run; the claim     *)
(* that follows raises attempt again.                                        *)
C8_Requeued(j) ==
    (JobExists(j) /\ jobs[j].status = "claimed")
        ~> (JobExists(j) /\ jobs[j].status = "queued" /\ LockNull(jobs[j]) /\ Claimable(j))

C8_ClaimedAgain(j) ==
    (JobExists(j) /\ jobs[j].status = "claimed" /\ jobs[j].attempt = 1)
        ~> (JobExists(j) /\ jobs[j].status = "claimed" /\ jobs[j].attempt = 2)

C8_LeaseRecovery == \A j \in JobIds : C8_Requeued(j) /\ C8_ClaimedAgain(j)

(* The job was claimed, requeued by a reaper after its lease and claimed again. *)
C8_Witness ==
    \E j \in 1 .. Len(jobs) :
        /\ jobs[j].status = "claimed"
        /\ jobs[j].attempt = 2
        /\ JobEvents(j, "lease_requeued") = 1
        /\ jobs[j].locked_at > 0

----------------------------------------------------------------------------
(* Properties of ingest and of the posting projection *)

C9_SameOrigin(a, b) == discoveries[a].origin_module_id = discoveries[b].origin_module_id

C9_ExtractJobsOf(d) ==
    { j \in 1 .. Len(jobs) :
        jobs[j].kind = "extract" /\ jobs[j].target_type = "discovery" /\ jobs[j].target_id = d }

(* C9 as stated: no two discoveries of one origin module share an            *)
(* external_id or share a normalized_url.                                    *)
C9_OneDiscoveryPerKey ==
    \A a, b \in 1 .. Len(discoveries) :
        a # b /\ C9_SameOrigin(a, b) =>
            /\ ~(/\ discoveries[a].external_id # NoText
                 /\ discoveries[a].external_id = discoveries[b].external_id)
            /\ discoveries[a].normalized_url # discoveries[b].normalized_url

(* C9, amended: no two discoveries of one origin module share a present      *)
(* external_id, and no two without external_id share a normalized_url; each  *)
(* discovery has one extract job and one 'ingested' event; an ingest whose   *)
(* key is already stored returns the stored id and writes nothing.           *)
C9_Keys ==
    /\ \A a, b \in 1 .. Len(discoveries) :
          a # b /\ C9_SameOrigin(a, b) =>
              /\ ~(/\ discoveries[a].external_id # NoText
                   /\ discoveries[a].external_id = discoveries[b].external_id)
              /\ ~(/\ discoveries[a].external_id = NoText
                   /\ discoveries[b].external_id = NoText
                   /\ discoveries[a].normalized_url = discoveries[b].normalized_url)
    /\ \A d \in 1 .. Len(discoveries) :
          /\ Cardinality(C9_ExtractJobsOf(d)) = 1
          /\ Cardinality(EventsOf("discovery", d, "ingested")) = 1

C9_Stored(m, ext, u) ==
    { d \in 1 .. Len(discoveries) :
        /\ discoveries[d].origin_module_id = m
        /\ \/ ext # NoText /\ discoveries[d].external_id = ext
           \/ /\ ext = NoText
              /\ discoveries[d].external_id = NoText
              /\ discoveries[d].normalized_url = normalize_url(u) }

C9_Repost ==
    \A p \in Workers, ext \in ExternalIds, u \in RawUrls :
        IngestInsert(p, "m1", ext, u) /\ C9_Stored("m1", ext, u) # {}
        => /\ resp'.op = "ingest" /\ resp'.proc = p /\ resp'.result = "ok"
           /\ resp'.id \in C9_Stored("m1", ext, u)
           /\ UNCHANGED <<db, tx>>

C9_IdempotentIngest == []C9_Keys /\ [][C9_Repost]_vars

(* Worker 2 posted a stored key again, after a later discovery had been      *)
(* stored, and got the first discovery's id back.                            *)
C9_Witness ==
    /\ Len(discoveries) = 2
    /\ Len(jobs) = 2
    /\ resp = Answer(2, Resp("ingest", 1, "ok", NoText, 0))

C10_PostingsWith(posts, hash) == { i \in 1 .. Len(posts) : posts[i].canonical_hash = hash }

(* C10: no two postings share a canonical_hash, and a submitted extraction   *)
(* that can be projected is answered done and leaves exactly one posting     *)
(* with its hash, also when another projection of that hash is open.         *)
C10_UniqueHash ==
    \A i, k \in 1 .. Len(postings) :
        i # k => postings[i].canonical_hash # postings[k].canonical_hash

C10_Projected(p) ==
    /\ tx[p].op = "submit"
    /\ tx'[p].op = "idle"
    /\ tx[p].plan.discovery_id # NoId
    => /\ resp' = Answer(p, Resp("submit", tx[p].job, "ok", "done", 0))
       /\ tx[p].plan.can_project_posting =>
              Cardinality(C10_PostingsWith(postings', tx[p].plan.incoming.canonical_hash)) = 1

C10_PostingUniqueness ==
    []C10_UniqueHash /\ [][\A p \in DOMAIN tx : C10_Projected(p)]_vars

(* Two projections of one hash overlapped: neither saw the other's posting,  *)
(* so no merge decision exists, and both were projected onto one posting.    *)
C10_Witness ==
    /\ Len(postings) = 1
    /\ Len(candidates) = 2
    /\ decisions = {}
    /\ Cardinality(EventsOf("posting", 1, "projected")) = 2

----------------------------------------------------------------------------
(* Properties of candidates and postings *)

C11_PostingsOf(c) == PostingsOfCandidate(postings, c)

(* C11: every candidate in state published has exactly one posting whose    *)
(* candidate_id refers to it, after any sequence of extract projections     *)
(* (several discoveries projecting the same canonical_hash included) and    *)
(* moderation calls.                                                        *)
C11_PublishedHasOnePosting ==
    \A c \in 1 .. Len(candidates) :
        candidates[c].state = "published" => Cardinality(C11_PostingsOf(c)) = 1

(* C12: every posting with status active has a published_at, in every       *)
(* reachable state, a row the canonical_hash upsert updates after it was    *)
(* first inserted with a status other than active included.                 *)
C12_ActiveHasPublishedAt ==
    \A i \in 1 .. Len(postings) :
        postings[i].status = "active" => postings[i].published_at # NoTime

(* The step appends a state_overridden event. *)
C13_Overrides ==
    \E k \in Len(events) + 1 .. Len(events') : events'[k].event_type = "state_overridden"

(* C13: every committed change of a candidate's state or of a posting's     *)
(* status is an allowed transition of the lifecycle tables or an identity,  *)
(* applied directly or derived from the other entity; the only exception is *)
(* override_candidate_state, which records a state_overridden event.        *)
C13_TransitionClosure ==
    [][~C13_Overrides =>
          /\ \A c \in 1 .. Len(candidates) :
                \/ candidates'[c].state = candidates[c].state
                \/ candidates'[c].state \in CandidateTransitions(candidates[c].state)
          /\ \A i \in 1 .. Len(postings) :
                \/ postings'[i].status = postings[i].status
                \/ postings'[i].status \in PostingTransitions(postings[i].status)]_vars

(* The candidate state that goes with a posting status. *)
C14_Derived(status) ==
    IF status \in {"active", "stale"} THEN "published" ELSE status

(* Both the posting transition and the derived candidate transition are in  *)
(* the lifecycle tables, or identities.                                     *)
C14_Allowed(i, status) ==
    LET c == postings[i].candidate_id
    IN  /\ status = postings[i].status \/ status \in PostingTransitions(postings[i].status)
        /\ c # NoId /\ CandidateExists(c)
           => \/ C14_Derived(status) = candidates[c].state
              \/ C14_Derived(status) \in CandidateTransitions(candidates[c].state)

(* C14: update_posting_status applies the posting status change and the     *)
(* derived candidate state change together or not at all.  If one of the    *)
(* two transitions is not allowed the call answers Conflict, no row changes *)
(* and no event is appended; on success the posting has the new status and  *)
(* its candidate the state derived from it.                                 *)
C14_BothOrNeither ==
    [][\A i \in ModPostingIds, st \in PostingStatuses :
          UpdatePostingStatus(1, i, st, MaxEventsMod) /\ PostingExists(i)
          => IF C14_Allowed(i, st)
             THEN /\ resp' = Answer(1, Resp("update_posting", i, "ok", st, 0))
                  /\ postings'[i].status = st
                  /\ postings[i].candidate_id # NoId
                     => candidates'[postings[i].candidate_id].state = C14_Derived(st)
                  /\ Len(events') > Len(events)
             ELSE /\ resp' = Answer(1, Resp("update_posting", i, "Conflict", NoText, 0))
                  /\ UNCHANGED db]_vars

(* A posting status change was refused because of the candidate: archived   *)
(* to active is allowed for the posting, needs_review to published is not   *)
(* allowed for its candidate.                                               *)
C14_Witness ==
    /\ resp = Answer(1, Resp("update_posting", 1, "Conflict", NoText, 0))
    /\ PostingExists(1)
    /\ postings[1].status = "archived"
    /\ postings[1].candidate_id = 1
    /\ candidates[1].state = "needs_review"

----------------------------------------------------------------------------
(* Properties of the provenance log *)

C15_Rows == <<discoveries, jobs, candidates, postings, links, decisions>>

(* The events the step appends. *)
C15_Appended == { events'[k] : k \in Len(events) + 1 .. Len(events') }

C15_Audited(etype, id) ==
    \E e \in C15_Appended : e.entity_type = etype /\ e.entity_id = id

(* The rows of a table the step inserts or updates. *)
C15_Touched(old, new) ==
    { i \in 1 .. Len(new) : i > Len(old) \/ new[i] # old[i] }

----------------------------------------------------------------------------
(* Properties of the projection *)

(* The events of one type that the projection of job j appended. *)
C16_ProjectionEvents(j, ev) ==
    { k \in 1 .. Len(events) :
        /\ events[k].entity_type = "posting_candidate"
        /\ events[k].event_type = ev
        /\ events[k].payload.job_id = j }

(* The candidates that the projection of job j materialized. *)
C16_Materialized(j) ==
    { events[k].entity_id : k \in C16_ProjectionEvents(j, "materialized") }

C16_Count(j) ==
    IF jobs[j].status = "done" /\ jobs[j].target_id \in 1 .. Len(discoveries) THEN 1 ELSE 0

(* C16: each extract job is projected at most once.  An extract job that    *)
(* reached done has exactly one materialized candidate and exactly one      *)
(* trust_policy_applied event; a job that is queued (again), claimed,       *)
(* failed or dead-lettered has none, across retries, lease expiries and     *)
(* re-claims.                                                               *)
C16_ProjectedOnce ==
    /\ \A j \in 1 .. Len(jobs) :
          jobs[j].kind = "extract"
          => /\ Cardinality(C16_ProjectionEvents(j, "materialized")) = C16_Count(j)
             /\ Cardinality(C16_Materialized(j)) = C16_Count(j)
             /\ Cardinality(C16_ProjectionEvents(j, "trust_policy_applied")) = C16_Count(j)
    /\ Len(candidates) = Cardinality({ j \in 1 .. Len(jobs) : C16_Count(j) = 1 })

(* A job is done on its second attempt, after a failed submission or an     *)
(* expired lease, and was projected once.                                   *)
C16_Witness ==
    \E j \in 1 .. Len(jobs) :
        /\ jobs[j].status = "done"
        /\ jobs[j].attempt >= 2
        /\ JobEvents(j, "retry_scheduled") + JobEvents(j, "lease_requeued") >= 1
        /\ Cardinality(C16_Materialized(j)) = 1

----------------------------------------------------------------------------
(* Properties of the trust policy *)

(* The step commits the projection of an extraction. *)
C17_Commits ==
    /\ tx[1].op = "submit"
    /\ tx[1].plan.discovery_id # NoId
    /\ tx'[1] = Idle

(* The candidate the step materializes, and the postings that refer to it. *)
C17_New == Len(candidates) + 1

C17_NewPostings == { i \in 1 .. Len(postings') : postings'[i].candidate_id = C17_New }

C17_NeverPublished ==
    /\ candidates'[C17_New].state # "published"
    /\ \A i \in C17_NewPostings : postings'[i].status # "active"

C17_HeldForReview ==
    /\ candidates'[C17_New].state = "needs_review"
    /\ C17_NewPostings # {}
    /\ \A i \in C17_NewPostings : postings'[i].status = "archived"
    /\ \E k \in Len(events) + 1 .. Len(events') :
          /\ events'[k].event_type = "trust_policy_applied"
          /\ events'[k].payload.reason = "untrusted_requires_moderation"

(* C17: a result whose effective trust policy is untrusted never yields a   *)
(* published candidate or an active posting, and every fully projectable    *)
(* payload ends with the candidate in needs_review, the posting archived    *)
(* and the reason untrusted_requires_moderation.                            *)
C17_UntrustedRouting ==
    [][C17_Commits /\ tx[1].plan.publish.trust_level = "untrusted"
       => /\ C17_NeverPublished
          /\ tx[1].plan.can_project_posting => C17_HeldForReview]_vars

(* A risk flag of the result or of the dedupe scorer contains "conflict". *)
C18_HasConflict ==
    (tx[1].result.risk_flags \cup tx[1].plan.merge_policy.risk_flags)
        \cap (ConflictFlags \cup {"source_conflict"}) # {}

(* The rule of the publish decision, on the policy the projection resolved. *)
C18_Publishes ==
    LET d == tx[1].plan.publish
    IN  \/ /\ d.trust_level = "trusted"
           /\ d.auto_publish /\ ~d.requires_moderation /\ d.meets_confidence
        \/ /\ d.trust_level = "semi_trusted"
           /\ d.auto_publish /\ ~d.requires_moderation /\ d.meets_confidence
           /\ ~C18_HasConflict

(* The result names neither a candidate state nor a posting status, and the *)
(* dedupe scorer matches it with no existing posting.                       *)
C18_Plain ==
    /\ tx[1].result.candidate_state = NoText
    /\ tx[1].result.status = NoText
    /\ tx[1].plan.merge_policy.decision = "none"

C19_Policy ==
    LET origin == discoveries[tx[1].plan.discovery_id].origin_module_id
    IN  _resolve_source_trust_policy(tx[1].result.source_key, origin, ModuleTrust(origin))

(* C19: when the matched source trust policy carries a min_confidence in    *)
(* its rules_json, that value is the threshold of the publish decision: a   *)
(* trusted or semi_trusted result meets confidence iff its                  *)
(* dedupe_confidence is at least the policy's min_confidence.               *)
C19_PolicyThreshold ==
    /\ tx[1].op = "submit"
    /\ tx[1].plan.discovery_id # NoId
    /\ C19_Policy.trust_level \in {"trusted", "semi_trusted"}
    /\ C19_Policy.min_confidence # NoConfidence
    => (tx[1].plan.publish.meets_confidence
        <=> /\ tx[1].result.dedupe_confidence # NoConfidence
            /\ tx[1].result.dedupe_confidence >= C19_Policy.min_confidence)

(* The types of the events the step appends. *)
C20_Appended == { events'[k].event_type : k \in Len(events) + 1 .. Len(events') }

(* C20: for a discovery of a trusted module and no posting yet, an extract  *)
(* job done with a result that holds only a nested posting object (title,   *)
(* organization and URLs, no dedupe_confidence) yields one candidate in     *)
(* state published, one posting in status active, and the events            *)
(* materialized, projected and trust_policy_applied.                        *)
C20_HappyPath ==
    [][/\ C17_Commits
       /\ ModuleTrust(discoveries[tx[1].plan.discovery_id].origin_module_id) = "trusted"
       /\ postings = <<>>
       /\ tx[1].result = PostingPayload({"phd"}, NoConfidence)
       => /\ Len(candidates') = Len(candidates) + 1
          /\ candidates'[C17_New].state = "published"
          /\ Len(postings') = 1
          /\ postings'[1].candidate_id = C17_New
          /\ postings'[1].status = "active"
          /\ {"materialized", "projected", "trust_policy_applied"} \subseteq C20_Appended]_vars

----------------------------------------------------------------------------
(* Properties of merges *)

(* The candidate the step materializes, and the routing event written for it. *)
C21_New == Len(candidates) + 1

C21_Appended == { events'[k] : k \in Len(events) + 1 .. Len(events') }

C21_Routing ==
    CHOOSE e \in C21_Appended :
        /\ e.entity_type = "posting_candidate"
        /\ e.entity_id = C21_New
        /\ e.event_type = "trust_policy_applied"

(* The published candidates whose posting carries the hash the step projects. *)
C21_Primaries ==
    { postings[i].candidate_id : i \in
        { k \in 1 .. Len(postings) :
            /\ postings[k].canonical_hash = candidates'[C21_New].dedupe_bucket_key
            /\ postings[k].candidate_id \in 1 .. Len(candidates)
            /\ candidates[postings[k].candidate_id].state = "published" } }

C21_Duplicate ==
    /\ Len(candidates') = Len(candidates) + 1
    /\ C21_Primaries # {}
    /\ C21_Routing.payload.trust_level = "trusted"
    /\ C21_Routing.payload.dedupe_confidence = 9900
    /\ ~C21_Routing.payload.has_conflict_flag

----------------------------------------------------------------------------
(* Properties of the dedupe scorer *)

C22_Scores(p) == { score_candidate_pair(tx[p].incoming, row) : row \in tx[p].existing }

(* The best-ranked match: the highest confidence, then the lowest candidate_id. *)
C22_IsBest(p, b) ==
    /\ b \in C22_Scores(p)
    /\ \A o \in C22_Scores(p) :
          \/ o.confidence < b.confidence
          \/ o.confidence = b.confidence /\ o.candidate_id >= b.candidate_id

C22_Decision(b, conflict) ==
    IF b.confidence >= 9300 /\ b.strong /\ b.has_posting /\ ~conflict THEN "auto_merged"
    ELSE IF b.confidence >= 7200 \/ conflict THEN "needs_review"
    ELSE IF b.strong THEN "rejected"
    ELSE "none"

(* C22: evaluate_merge_policy answers none for no existing candidates;      *)
(* otherwise, for the best-ranked match, auto_merged iff its confidence is  *)
(* at least 0.93, a strong signal fired, it has a posting and no conflict_* *)
(* flag is present, else needs_review iff the confidence is at least 0.72   *)
(* or a conflict_* flag is present, else rejected iff a strong signal       *)
(* fired, else none; a pair without a strong signal scores at most 0.89 and *)
(* is never auto_merged.                                                    *)
C22_MergePolicy ==
    \A p \in DOMAIN tx :
        tx[p].op = "evaluated" =>
            /\ tx[p].existing = {} => tx[p].decision.decision = "none"
            /\ tx[p].existing # {} =>
                  \A b \in C22_Scores(p) :
                      C22_IsBest(p, b) =>
                          /\ tx[p].decision.decision =
                                 C22_Decision(b, tx[p].decision.risk_flags \cap ConflictFlags # {})
                          /\ tx[p].decision.decision # "none" =>
                                 tx[p].decision.primary_candidate_id = b.candidate_id
                          /\ ~b.strong => tx[p].decision.decision # "auto_merged"
            /\ \A s \in C22_Scores(p) : ~s.strong => s.confidence <= 8900

(* Two existing candidates tie on a confidence capped at 0.89 without a     *)
(* strong signal: the first is selected and sent to review.                 *)
C22_Witness ==
    /\ tx[1].op = "evaluated"
    /\ Cardinality(tx[1].existing) = 2
    /\ \A s \in C22_Scores(1) : s.confidence = 8900 /\ ~s.strong
    /\ tx[1].decision.decision = "needs_review"
    /\ tx[1].decision.primary_candidate_id = 1

----------------------------------------------------------------------------
(* Properties of merge_candidates *)

C23_Exists(c) == c \in 1 .. Len(candidates)

C23_Postings(c) == { i \in 1 .. Len(postings) : postings[i].candidate_id = c }

(* The error the call is refused with, "ok" if it is not refused: the same  *)
(* candidate twice, then a missing candidate, then two distinct postings.   *)
C23_Refusal(primary, secondary) ==
    IF primary = secondary THEN "Conflict"
    ELSE IF ~C23_Exists(primary) \/ ~C23_Exists(secondary) THEN "NotFound"
    ELSE IF C23_Postings(primary) # {} /\ C23_Postings(secondary) # {} THEN "Conflict"
    ELSE "ok"

(* C23: merge_candidates fails with Conflict when primary and secondary are *)
(* the same candidate or when both candidates have distinct postings, and   *)
(* with NotFound when one of two different candidates is missing; a failed  *)
(* call changes no candidate, posting, link, merge decision or event.       *)
C23_MergeRefused ==
    [][\A a, b \in MergeCandidateIds :
          MergeCandidates(1, a, b, MaxEventsMerge) =>
              /\ resp'.op = "merge"
              /\ resp'.result = C23_Refusal(a, b)
              /\ resp'.result # "ok" => UNCHANGED db]_vars

(* A merge of two candidates that both have a posting was refused. *)
C23_Witness ==
    /\ Len(postings) = 2
    /\ postings[1].candidate_id # postings[2].candidate_id
    /\ resp.op = "merge"
    /\ resp.result = "Conflict"
    /\ resp.id \in 1 .. 2
    /\ decisions = {}

C24_Links(lnks, c) == { l[2] : l \in { x \in lnks : x[1] = c } }

(* The posting of the secondary moves when the primary has none. *)
C24_Moved(primary, secondary) ==
    IF C23_Postings(primary) = {} THEN C23_Postings(secondary) ELSE {}

C24_Appended == { events'[k] : k \in Len(events) + 1 .. Len(events') }

C24_Event(etype, id, ev) ==
    \E e \in C24_Appended : e.entity_type = etype /\ e.entity_id = id /\ e.event_type = ev

----------------------------------------------------------------------------
(* Properties of the merge locks *)

C25_Merging(p) == tx[p].op = "merge"

(* The transaction waits for a row lock that another transaction holds. *)
C25_Waits(p) ==
    /\ C25_Merging(p)
    /\ tx[p].todo # <<>>
    /\ CandidateLockedByOther(Head(tx[p].todo), p)

(* C25: merge_candidates locks its two candidate rows in ascending id      *)
(* order whichever is the primary, so concurrent merges of (A, B) and of   *)
(* (B, A) never deadlock: at any time one open merge can proceed, and      *)
(* every merge that was begun ends, committed or refused with an error.    *)
C25_MergesTerminate ==
    /\ [](\A p \in Moderators : C25_Merging(p) =>
              \E q \in Moderators : C25_Merging(q) /\ ~C25_Waits(q))
    /\ \A p \in Moderators : C25_Merging(p) ~> IsIdle(p)

(* The merge of (1, 2) holds the row of candidate 1 and the merge of (2, 1) *)
(* waits for it.                                                            *)
C25_Witness ==
    /\ Len(candidates) = 2
    /\ tx[1].op = "merge" /\ tx[1].primary = 1 /\ tx[1].secondary = 2 /\ tx[1].held = {1}
    /\ tx[2].op = "merge" /\ tx[2].primary = 2 /\ tx[2].secondary = 1 /\ C25_Waits(2)

----------------------------------------------------------------------------
(* Properties of the freshness checks *)

C26_Pending(i) == { j \in FreshnessJobsOf(i) : jobs[j].status \in {"queued", "claimed"} }

(* C26: at any time each posting has at most one check_freshness job in     *)
(* status queued or claimed, also when several callers run                  *)
(* enqueue_due_freshness at the same time.                                  *)
C26_OnePending == \A i \in 1 .. Len(postings) : Cardinality(C26_Pending(i)) <= 1

(* The step appends a status_changed event. *)
C27_StatusChanged ==
    \E k \in Len(events) + 1 .. Len(events') : events'[k].event_type = "status_changed"

(* Both the change of posting i to the status and the change of its         *)
(* candidate to the derived state are transitions of the lifecycle tables.  *)
C27_Allowed(i, status) ==
    LET c == postings[i].candidate_id
        derived == _derive_candidate_state_for_posting_status(status)
    IN  /\ status \in PostingTransitions(postings[i].status)
        /\ \/ c = NoId
           \/ derived = candidates[c].state
           \/ derived \in CandidateTransitions(candidates[c].state)

C27_Applied(i, status) ==
    LET c == postings[i].candidate_id
    IN  /\ postings'[i].status = status
        /\ c # NoId => candidates'[c].state = _derive_candidate_state_for_posting_status(status)
        /\ C27_StatusChanged

(* C27: a check_freshness job submitted done with a recommended status      *)
(* moves the posting to that status and its candidate to the derived state  *)
(* only if both transitions are allowed; otherwise posting and candidate    *)
(* are left unchanged and no status_changed event is appended; the job ends *)
(* done in both cases.                                                      *)
C27_FreshnessResult ==
    [][\A st \in PostingStatuses :
          /\ SubmitResult(1, 2, "m1", "done", FreshnessResult(st), MaxEventsFresh)
          /\ resp'.result = "ok"
          /\ jobs[2].kind = "check_freshness"
          => /\ jobs'[2].status = "done"
             /\ IF C27_Allowed(jobs[2].target_id, st)
                THEN C27_Applied(jobs[2].target_id, st)
                ELSE /\ postings' = postings
                     /\ candidates' = candidates
                     /\ ~C27_StatusChanged]_vars

(* The check recommended a status for the active posting of a candidate in  *)
(* review: the job is done, the result was not applied.                     *)
C27_Witness ==
    /\ Len(jobs) = 2
    /\ jobs[2].status = "done"
    /\ postings[1].status = "active"
    /\ candidates[1].state = "needs_review"
    /\ \E k \in 1 .. Len(events) :
          /\ events[k].event_type = "freshness_result_applied"
          /\ ~events[k].payload.applied

(* C28: a failed submission of a check_freshness job that is terminal       *)
(* downgrades the posting one step, active to stale or stale to archived,   *)
(* and leaves an archived or closed posting unchanged; a failed submission  *)
(* resolved to a retry does not change the posting.                         *)
C28_Fallback ==
    [][/\ SubmitResult(1, 2, "m1", "failed", NoResult, MaxEventsFresh)
       /\ resp'.result = "ok"
       /\ jobs[2].kind = "check_freshness"
       => LET i == jobs[2].target_id
          IN  IF resp'.status = "failed"
              THEN /\ postings'[i].status =
                         CASE postings[i].status = "active" -> "stale"
                           [] postings[i].status = "stale"  -> "archived"
                           [] OTHER                         -> postings[i].status
                   /\ \A k \in 1 .. Len(postings) : k # i => postings'[k] = postings[k]
              ELSE postings' = postings]_vars

----------------------------------------------------------------------------
(* Properties of the retry schedule *)

C29_Delay(attempt) ==
    Min(job_retry_max_seconds, job_retry_base_seconds * Pow2(attempt - 1))

(* The job waits for its retry. *)
C29_Waiting(j) == jobs[j].status = "queued" /\ jobs[j].next_run_at > now

(* C29: a failed submission with attempt < job_max_attempts requeues the    *)
(* job with next_run_at = now + min(job_retry_max_seconds,                  *)
(* job_retry_base_seconds * 2^(attempt-1)); the delay never exceeds         *)
(* job_retry_max_seconds and never shrinks as attempt grows; until          *)
(* next_run_at is reached the job is not listed by list_queued and a claim  *)
(* of it fails with Conflict.                                               *)
C29_RetrySchedule ==
    /\ [][\A j \in JobIds, m \in Modules :
             /\ SubmitResult(1, j, m, "failed", NoResult, MaxEvents)
             /\ resp'.result = "ok"
             /\ jobs[j].attempt < job_max_attempts
             => /\ jobs'[j].status = "queued"
                /\ jobs'[j].next_run_at = now + C29_Delay(jobs[j].attempt)]_vars
    /\ [][\A j \in JobIds, m \in Modules, l \in LeaseChoices :
             /\ ClaimJob(1, j, m, l, MaxEvents)
             /\ JobExists(j)
             /\ C29_Waiting(j)
             => resp'.result = "Conflict" /\ UNCHANGED db]_vars
    /\ [](\A j \in 1 .. Len(jobs) : C29_Waiting(j) => j \notin list_queued_jobs)
    /\ [](\A a \in 1 .. MaxAttempt :
             /\ _compute_retry_delay_seconds(a) = C29_Delay(a)
             /\ _compute_retry_delay_seconds(a) <= job_retry_max_seconds
             /\ _compute_retry_delay_seconds(a) <= _compute_retry_delay_seconds(a + 1))

(* The second failed attempt was requeued with the doubled delay, and a     *)
(* claim made before its next_run_at was answered Conflict.                 *)
C29_Witness ==
    /\ Len(jobs) >= 1
    /\ jobs[1].attempt = 2
    /\ C29_Waiting(1)
    /\ jobs[1].next_run_at - now = 2 * job_retry_base_seconds
    /\ resp = Answer(1, Resp("claim", 1, "Conflict", NoText, 0))

----------------------------------------------------------------------------
(* Properties of the lease *)

(* C30: for every claimed job lease_expires_at is strictly later than       *)
(* locked_at, for every lease_seconds the claim request accepts.            *)
C30_LeaseAfterLock ==
    \A j \in 1 .. Len(jobs) :
        jobs[j].status = "claimed" => jobs[j].lease_expires_at > jobs[j].locked_at

----------------------------------------------------------------------------
(* Properties of redirect resolution *)

(* C31: every discovery that has a normalized_url has canonical_hash =       *)
(* SHA-256(normalized_url), after ingest and after a redirect resolution     *)
(* with any combination of the three resolved keys.                          *)
C31_HashOfNormalizedUrl ==
    \A d \in 1 .. Len(discoveries) :
        discoveries[d].normalized_url # NoUrl
        => discoveries[d].canonical_hash = canonical_hash(discoveries[d].normalized_url)

(* The resolved values of a result for a discovery: the supplied ones, the  *)
(* current ones where none is supplied.                                     *)
C32_Resolved(d, x) ==
    LET norm == IF x.resolved_normalized_url # NoUrl THEN x.resolved_normalized_url
                ELSE discoveries[d].normalized_url
    IN  [url |-> IF x.resolved_url # NoUrl THEN x.resolved_url ELSE discoveries[d].url,
         normalized_url |-> norm,
         canonical_hash |-> IF x.resolved_canonical_hash # NoHash
                            THEN x.resolved_canonical_hash ELSE canonical_hash(norm)]

C32_Supplied(x) ==
    \/ x.resolved_url # NoUrl
    \/ x.resolved_normalized_url # NoUrl
    \/ x.resolved_canonical_hash # NoHash

C32_Differs(d, x) ==
    /\ C32_Supplied(x)
    /\ C32_Resolved(d, x) # [url |-> discoveries[d].url,
                             normalized_url |-> discoveries[d].normalized_url,
                             canonical_hash |-> discoveries[d].canonical_hash]

(* Another discovery holds the uniqueness tuple the rewritten row would have. *)
C32_Collides(d, x) ==
    \E o \in 1 .. Len(discoveries) :
        /\ o # d
        /\ DiscoveryKey(discoveries[o].origin_module_id, discoveries[o].external_id,
                        discoveries[o].normalized_url)
           = DiscoveryKey(discoveries[d].origin_module_id, discoveries[d].external_id,
                          C32_Resolved(d, x).normalized_url)

C32_Appended == SubSeq(events', Len(events) + 1, Len(events'))

C32_Recorded(d, ev) ==
    Cardinality({ k \in 1 .. Len(C32_Appended) :
        /\ C32_Appended[k].entity_type = "discovery"
        /\ C32_Appended[k].entity_id = d
        /\ C32_Appended[k].event_type = ev })

C32_Unique ==
    \A a, b \in 1 .. Len(discoveries) :
        a # b /\ discoveries[a].origin_module_id = discoveries[b].origin_module_id =>
            /\ ~(/\ discoveries[a].external_id # NoText
                 /\ discoveries[a].external_id = discoveries[b].external_id)
            /\ ~(/\ discoveries[a].external_id = NoText
                 /\ discoveries[b].external_id = NoText
                 /\ discoveries[a].normalized_url = discoveries[b].normalized_url)

C32_Step(j, x) ==
    LET d == jobs[j].target_id
        new == C32_Resolved(d, x)
    IN  /\ resp' = Answer(1, Resp("submit", j, "ok", "done", 0))
        /\ jobs[j].kind = "resolve_url_redirects"
        /\ SubmitResult(1, j, "m1", "done", x, MaxEventsRedirect)
        => /\ jobs'[j].status = "done"
           /\ \A o \in 1 .. Len(discoveries) : o # d => discoveries'[o] = discoveries[o]
           /\ IF C32_Differs(d, x) /\ ~C32_Collides(d, x)
              THEN /\ discoveries'[d] = [discoveries[d] EXCEPT
                                            !.url = new.url,
                                            !.normalized_url = new.normalized_url,
                                            !.canonical_hash = new.canonical_hash]
                   /\ C32_Recorded(d, "redirect_resolved") = 1
                   /\ C32_Recorded(d, "redirect_resolution_conflict") = 0
              ELSE /\ discoveries'[d] = discoveries[d]
                   /\ C32_Recorded(d, "redirect_resolved") = 0
                   /\ C32_Recorded(d, "redirect_resolution_conflict")
                        = IF C32_Differs(d, x) THEN 1 ELSE 0

(* C32: a done resolve_url_redirects result rewrites the discovery's url,   *)
(* normalized_url and canonical_hash only when the resolved values differ   *)
(* and no other discovery holds the same uniqueness tuple; on a collision   *)
(* the discovery is unchanged and redirect_resolution_conflict is recorded, *)
(* otherwise redirect_resolved; the uniqueness rule of discoveries holds    *)
(* afterwards and the job ends done in both cases.                          *)
C32_RedirectRewrite ==
    /\ [][\A j \in RedirectJobIds, x \in RedirectResults : C32_Step(j, x)]_vars
    /\ []C32_Unique

(* One discovery was rewritten to the second page, and a later resolution   *)
(* of another discovery to that page was recorded as a conflict.            *)
C32_Witness ==
    /\ \E d \in 1 .. Len(discoveries) :
          /\ EventsOf("discovery", d, "redirect_resolved") # {}
          /\ discoveries[d].normalized_url = normalize_url(OtherUrl)
    /\ \E d \in 1 .. Len(discoveries) :
          /\ EventsOf("discovery", d, "redirect_resolution_conflict") # {}
          /\ discoveries[d].normalized_url = normalize_url(PageUrl)
    /\ \A j \in 1 .. Len(jobs) :
          jobs[j].kind = "resolve_url_redirects" => jobs[j].status = "done"

----------------------------------------------------------------------------
(* Properties of URL normalization *)

(* C33: normalize(normalize(u)) = normalize(u) for every URL u and every    *)
(* override table, so the canonical hash of a normalized URL does not       *)
(* change under repeated normalization.                                     *)
C33_Idempotent ==
    \A p \in DOMAIN tx :
        tx[p].op = "normalize" =>
            \A k \in 2 .. Len(tx[p].returned) : tx[p].returned[k] = tx[p].returned[1]

----------------------------------------------------------------------------
(* Properties of human principals *)

(* C34: a human principal's role and scopes depend only on                  *)
(* app_metadata.role: the role is app_metadata.role when it is there, and   *)
(* 'user' when it is not, whatever user_metadata says.                      *)
C34_RoleFromAppMetadata ==
    \A p \in DOMAIN tx :
        tx[p].op = "principal" =>
            LET role == IF HasRole(tx[p].user.app_metadata)
                        THEN tx[p].user.app_metadata.role ELSE "user"
            IN  /\ tx[p].role = role
                /\ tx[p].scopes = ROLE_SCOPES(role)

----------------------------------------------------------------------------
(* Properties of the lease of a result *)

(* The worker's lease was requeued and the job has been claimed again. *)
C35_Superseded(p) ==
    /\ tx[p].op = "working"
    /\ jobs[tx[p].job].status = "claimed"
    /\ jobs[tx[p].job].attempt > tx[p].attempt
    /\ JobEvents(tx[p].job, "lease_requeued") >= 1

(* C35: a result is applied only for the job's current lease: after the     *)
(* lease expired, was requeued by reap_expired and the job was claimed      *)
(* again, a submit_result by the earlier holder is rejected and neither     *)
(* completes the job nor triggers a projection, also when both claims were  *)
(* made under one module identity.                                          *)
C35_CurrentLeaseOnly ==
    [][\A p \in Workers :
          C35_Superseded(p) /\ WorkerSubmit(p, "done", GoodResult, MaxEventsLease)
          => resp'.result # "ok" /\ UNCHANGED db]_vars

----------------------------------------------------------------------------
(* Properties of the moderation locks *)

(* The next statement of p needs a row that q holds locked. *)
C36_WaitsFor(p, q) ==
    \/ /\ tx[p].op = "candidate_state"
       /\ ResolvedPostingStatus(tx[p]) # NoText
       /\ PostingsOfCandidate(postings, tx[p].candidate) \cap PostingLocks(q) # {}
    \/ /\ tx[p].op = "posting_status"
       /\ postings[tx[p].posting].candidate_id \in CandidateLocks(q)

(* C36: concurrent candidate state changes (candidate row, then its posting *)
(* rows) and posting status changes (posting row, then its candidate row)   *)
(* never reach a state in which each transaction waits for a lock the other *)
(* holds.                                                                   *)
C36_NoLockCycle ==
    \A p, q \in DOMAIN tx : p # q => ~(C36_WaitsFor(p, q) /\ C36_WaitsFor(q, p))

----------------------------------------------------------------------------
(* Properties of the attempt counter *)

(* C37: no job is claimed more than job_max_attempts times: attempt <=      *)
(* job_max_attempts in every reachable state, also when leases expire       *)
(* without a result and reap_expired requeues the job.                      *)
C37_AttemptBound ==
    \A j \in 1 .. Len(jobs) : jobs[j].attempt <= job_max_attempts

----------------------------------------------------------------------------
(* Properties of a freshness result after moderation *)

C38_Enqueued ==
    { k \in 1 .. Len(events) :
        /\ events[k].entity_type = "job"
        /\ events[k].entity_id = 2
        /\ events[k].event_type = "freshness_enqueued" }

(* The moderator archived or closed posting 1 after job 2 was enqueued. *)
C38_Moderation ==
    { k \in 1 .. Len(events) :
        /\ events[k].entity_type = "posting"
        /\ events[k].entity_id = 1
        /\ events[k].event_type = "status_changed"
        /\ events[k].actor_type = "human"
        /\ events[k].payload.to_status \in {"archived", "closed"}
        /\ \E e \in C38_Enqueued : e < k }

(* What the worker recommends from the status the posting had at enqueue   *)
(* time, which is the status the moderator found.                           *)
C38_Recommended ==
    { execute_check_freshness(events[k].payload.from_status, stale_due, archive_due) :
        k \in C38_Moderation, stale_due \in BOOLEAN, archive_due \in BOOLEAN }

(* C38: a check_freshness result computed from the posting status at        *)
(* enqueue time never reverses a later moderation decision: after the       *)
(* moderator archived or closed the posting, the job's done result and its  *)
(* terminal-failure fallback leave the posting's status and its candidate's *)
(* state as they are.                                                       *)
C38_ModerationKept ==
    [][/\ C38_Moderation # {}
       /\ jobs[2].kind = "check_freshness"
       /\ \/ \E r \in C38_Recommended :
                SubmitResult(1, 2, "m1", "done", FreshnessResult(r), MaxEventsFresh)
          \/ SubmitResult(1, 2, "m1", "failed", NoResult, MaxEventsFresh)
       => /\ postings'[1].status = postings[1].status
          /\ candidates' = candidates]_vars

----------------------------------------------------------------------------
(* Properties of postings across projections *)

(* The step is the submission of an extraction whose candidate the trust    *)
(* policy or the merge decision routed to needs_review or rejected.         *)
C39_RoutedToReview ==
    /\ \E j \in DupJobIds : \E x \in {GoodResult, SureResult, AltResult, LowResult} :
          /\ resp' = Answer(1, Resp("submit", j, "ok", "done", 0))
          /\ SubmitResult(1, j, "m1", "done", x, MaxEventsDup)
    /\ Len(candidates') = Len(candidates) + 1
    /\ candidates'[Len(candidates')].state \in {"needs_review", "rejected"}

(* C39: processing an extract result that is routed to needs_review or      *)
(* rejected leaves every posting that existed before the submission         *)
(* unchanged in status, content and candidate_id.                           *)
C39_PostingsKept ==
    [][C39_RoutedToReview
       => \A i \in 1 .. Len(postings) : postings'[i] = postings[i]]_vars

(* C40: every candidate has at most one posting whose candidate_id refers   *)
(* to it, after any sequence of extract projections, upserts onto an        *)
(* existing canonical_hash, manual merges and automatic merges.             *)
C40_AtMostOnePosting ==
    \A c \in 1 .. Len(candidates) :
        Cardinality(PostingsOfCandidate(postings, c)) <= 1

(* Two postings exist, one of them upserted by a second projection of its   *)
(* hash; a merge moved a posting to a candidate that had lost its own, and  *)
(* a further merge onto that candidate was refused.                         *)
C40_Witness ==
    /\ Len(postings) = 2
    /\ \E i \in 1 .. Len(postings) : Cardinality(EventsOf("posting", i, "projected")) = 2
    /\ \E k \in 1 .. Len(events) : events[k].event_type = "candidate_reassigned"
    /\ resp.op = "merge"
    /\ resp.result = "Conflict"

============================================================================
